---- MODULE Spec2Model ----
(***************************************************************************)
(* Verification model of the marketing crawler.                            *)
(*                                                                         *)
(*   SpecCrawl : SmartCrawler.discover_important_pages (smart_crawler.py)  *)
(*   SpecPipe  : the producer/consumer pipeline of run_pipeline_async      *)
(*               (app.py) over WorkflowEngine.extract_content and          *)
(*               WorkflowEngine.extract_values_from_queue (run.py), with   *)
(*               cancel_job running concurrently                           *)
(*   SpecFetch : ContentExtractor.extract_clean_content                    *)
(*               (content_crawler.py), one step per attempt                *)
(*   SpecUrl   : SmartCrawler.clean_url applied to a URL and to its own    *)
(*               result                                                    *)
(*   SpecScore : SmartCrawler.calculate_priority applied to a canonical    *)
(*               URL, a context and a crawl depth                          *)
(*   SpecLinks : SmartCrawler.extract_all_links on one page, one step per  *)
(*               loop over the anchors                                     *)
(*   SpecSitemap : SmartCrawler.parse_sitemap, one step per request        *)
(*   SpecBatch : crawl_from_csv (smart_crawler.py) over its worker pool     *)
(*   SpecLabel : label_urls_with_openai (label_urls.py), one step per row   *)
(*   SpecJobs  : the job registry of app.py: start requests, the first and *)
(*               last lines of run_pipeline_async, cancel_job               *)
(*                                                                         *)
(* In SpecCrawl URLs are identifiers 1..NumUrls.  Url 1 is the base URL,   *)
(* spelled as the caller gave it (base_url_str); the others are what       *)
(* parse_sitemap and extract_all_links can return: cleaned, same-domain    *)
(* URLs that passed the skip filter.  OffSiteUrl is a URL of another host, *)
(* which only parse_sitemap can return.  What a page links to is chosen    *)
(* when the page is fetched, so every site graph is covered; the context   *)
(* of a link is a fixed function of the page and the target.               *)
(*                                                                         *)
(* In SpecUrl and SpecScore a URL is the sequence of tokens that follows   *)
(* "https://host": "/" ";" "?" "#" "&", path text ("a", and "x" / "X" for  *)
(* text that holds a skip pattern in lower or upper case) and query        *)
(* parameters ("t" utm_source=1, "k" k=v, "j" j=w, "b" e=, "n" e).         *)
(***************************************************************************)
EXTENDS Integers, Sequences, FiniteSets, TLC

\* ------------------------------------------------------ program constants
max_depth == 3

\* ---------------------------------------------------------------- bounds
\* the site has just enough pages for a link to land below the depth limit
NumUrls == max_depth + 2
MaxLinks == 2
MaxSitemap == 2
MaxBudget == 5
MaxUseful == 3
MaxRetries == 5
MaxPathLen == 4
MaxParams == 2
MaxSegments == 6
MaxCrawlDepth == 6
MaxAnchors == 2
MaxLocs == 2
MaxIndexSize == 6
MaxJobs == 2
MaxClock == 1
MaxBatch == 2
MaxCancels == 1
MaxSites == 2
MaxWorkers == 2
MaxFound == 2
MaxRows == 3

VARIABLES
    \* SmartCrawler
    max_urls,          \* self.max_urls
    discovered_urls,   \* self.discovered_urls : url -> priority
    url_depths,        \* self.url_depths      : url -> depth
    to_crawl,          \* deque of <<url, depth>>
    crawled,           \* set of urls already link-extracted
    sitemap_urls,      \* list returned by parse_sitemap()
    base_url_str,      \* self.base_url as text
    relinked,          \* history: some fetched page linked to an already crawled url
    crawl_log,         \* history: <<url, depth>> of every extract_all_links() call
    pcD,               \* position in discover_important_pages
    discovered_order,  \* the keys of discovered_urls in dict insertion order
    rows,              \* the data rows save_results wrote, in file order
    \* pipeline
    job_id,            \* the job_id argument given to producer and consumer
    job_cancellation,  \* app.job_cancellation : job id -> flag
    num_useful,        \* len(useful_urls)
    file_queue,        \* the hand-off Queue
    idx,               \* producer: index of the url in hand
    failed_urls,       \* producer: indexes of the urls whose fetch failed
    pcP,               \* producer position
    producer_exit,     \* history: how the producer ended
    fetch_started,     \* history: number of extract_clean_content calls
    enqueued,          \* history: every item put on the queue, in order
    pcC,               \* consumer position
    filepath,          \* consumer: the item in hand
    file_count,        \* consumer: file_count
    accumulated_data,  \* consumer: the snapshot, as the units folded into it
    progress_file,     \* logs/extraction_progress.json
    output_file,       \* 3_company_data.json
    consumer_exit,     \* history: how the consumer ended
    processed,         \* history: items passed to extract_value_from_file
    ai_failed,         \* history: items whose extraction call failed
    drained,           \* history: items removed by the drain loop
    cancel_at,         \* history: units taken by the consumer when cancel was first set
    \* ContentExtractor.extract_clean_content
    max_retries,       \* self.max_retries
    attempt,           \* the loop variable
    outcomes,          \* history: the outcome of every requests.get, in order
    waits,             \* history: the seconds of every time.sleep, in order
    result,            \* the value returned
    pcF,               \* position in extract_clean_content
    \* SmartCrawler.clean_url and SmartCrawler.calculate_priority
    url_in,            \* the url argument
    context_in,        \* the context argument
    depth_in,          \* the depth argument
    cleaned,           \* clean_url(url_in)
    recleaned,         \* clean_url(cleaned)
    priority_out,      \* calculate_priority(url_in, context_in, depth_in)
    pcU,               \* which call has returned
    \* SmartCrawler.extract_all_links
    page_url,          \* the url argument
    anchors,           \* the <a href> elements of the page, in document order
    page_links,        \* the links dict, as pairs <<url, context>> in insertion order
    link_error,        \* history: what raised inside the try block, if anything
    pcL,               \* position in extract_all_links
    \* SmartCrawler.parse_sitemap
    sm_base_url,       \* self.base_url
    candidate,         \* index of the current entry of sitemap_urls
    sitemaps,          \* number of sitemap/loc entries of the index being read
    child,             \* index of the current child sitemap
    found_urls,        \* the list returned
    requested,         \* history: the URL of every requests.get, in order
    answers,           \* history: how each candidate answered, in order
    pcS,               \* position in parse_sitemap
    \* app.py, the job registry
    now,               \* datetime.now(), in whole seconds
    threads,           \* the run_pipeline_async threads, in order of creation
    active_jobs,       \* app.active_jobs : job id -> tracker (the thread's number)
    cancels,           \* the cancel_job requests, in order of arrival
    \* smart_crawler.crawl_from_csv
    base_urls,         \* the urls read from the csv file
    max_workers,       \* the max_workers argument
    futures,           \* per url: the state of its call and the record it returned
    crawlers,          \* per url: the discovered set of its SmartCrawler
    results,           \* the results list
    pcB,               \* position in crawl_from_csv
    \* label_urls.label_urls_with_openai
    input_rows,        \* history: the isUseful cells as read from the file
    csv_rows,          \* rows: the isUseful cell of every row
    output_csv,        \* the isUseful cells in the file
    row_idx,           \* idx
    replies,           \* history: <<row, reply>> of every API call
    pcW                \* position in label_urls_with_openai

crawlVars == <<max_urls, discovered_urls, url_depths, to_crawl, crawled,
               sitemap_urls, base_url_str, relinked, crawl_log, pcD,
               discovered_order, rows>>

pipeVars == <<job_id, job_cancellation, num_useful, file_queue, idx, failed_urls,
              pcP, producer_exit, fetch_started, enqueued, pcC, filepath,
              file_count, accumulated_data, progress_file, output_file,
              consumer_exit, processed, ai_failed, drained, cancel_at>>

fetchVars == <<max_retries, attempt, outcomes, waits, result, pcF>>

urlVars == <<url_in, context_in, depth_in, cleaned, recleaned, priority_out, pcU>>

linkVars == <<page_url, anchors, page_links, link_error, pcL>>

sitemapVars == <<sm_base_url, candidate, sitemaps, child, found_urls, requested, answers, pcS>>

jobVars == <<now, threads, active_jobs, cancels>>

batchVars == <<base_urls, max_workers, futures, crawlers, results, pcB>>

labelVars == <<input_rows, csv_rows, output_csv, row_idx, replies, pcW>>

vars == <<crawlVars, pipeVars, fetchVars, urlVars, linkVars, sitemapVars, jobVars,
         batchVars, labelVars>>

\* ------------------------------------------------------------- URL universe
Urls == 1..NumUrls
base_url == 1
\* a URL of another host; self.domain and urlparse(url).netloc
OffSiteUrl == NumUrls + 1
domain == "host"
netloc(url) == IF url = OffSiteUrl THEN "other" ELSE "host"
Contexts == {"nav", "footer", "homepage", "body"}

\* number of non-empty path segments of a URL; the base URL has the root path
PathParts(url) == url - 1

\* whether the canonical URL still carries a query string
HasQuery(url) == url # base_url /\ url % 2 = 1

EmptyMap == [u \in {} |-> 0]

Min(a, b) == IF a < b THEN a ELSE b
Max(a, b) == IF a > b THEN a ELSE b

\* sequences without repetition over S, of length at most n
RECURSIVE DistinctSeqs(_, _)
DistinctSeqs(S, n) ==
    IF n = 0 THEN {<<>>}
    ELSE {<<>>} \cup
         UNION {{<<x>> \o s : s \in DistinctSeqs(S \ {x}, n - 1)} : x \in S}

\* sequences over S of length at most n
RECURSIVE BoundedSeqs(_, _)
BoundedSeqs(S, n) ==
    IF n = 0 THEN {<<>>}
    ELSE {<<>>} \cup {<<x>> \o s : x \in S, s \in BoundedSeqs(S, n - 1)}

\* ---------------------------------------------------------- pipeline values
\* the sentinel; artifact paths are the positive indexes of their urls
None == 0
\* job_id=None, as at the call sites of app.py; JobId when the caller passes it
NoJobId == 0
JobId == 1
NoFlags == [j \in {} |-> FALSE]
NotCancelled == 0 - 1
Unwritten == [written |-> FALSE, data |-> <<>>]
Written(data) == [written |-> TRUE, data |-> data]
\* the value of a call that has not returned
NoResult == [kind |-> "unset"]
NoUrl == <<"unset">>
NoScore == 0 - 1

\* ------------------------------------- the parts a specification leaves idle
CrawlIdle ==
    /\ max_urls = 1
    /\ discovered_urls = EmptyMap
    /\ url_depths = EmptyMap
    /\ to_crawl = <<>>
    /\ crawled = {}
    /\ sitemap_urls = <<>>
    /\ base_url_str = <<"/">>
    /\ relinked = FALSE
    /\ crawl_log = <<>>
    /\ discovered_order = <<>>
    /\ rows = <<>>
    /\ pcD = "idle"

PipeIdle ==
    /\ job_id = NoJobId
    /\ job_cancellation = NoFlags
    /\ num_useful = 0
    /\ file_queue = <<>>
    /\ idx = 0
    /\ failed_urls = <<>>
    /\ pcP = "idle"
    /\ producer_exit = "none"
    /\ fetch_started = 0
    /\ enqueued = <<>>
    /\ pcC = "idle"
    /\ filepath = None
    /\ file_count = 0
    /\ accumulated_data = <<>>
    /\ progress_file = Unwritten
    /\ output_file = Unwritten
    /\ consumer_exit = "none"
    /\ processed = <<>>
    /\ ai_failed = {}
    /\ drained = <<>>
    /\ cancel_at = NotCancelled

FetchIdle ==
    /\ max_retries = 0
    /\ attempt = 0
    /\ outcomes = <<>>
    /\ waits = <<>>
    /\ result = NoResult
    /\ pcF = "idle"

UrlIdle ==
    /\ url_in = <<>>
    /\ context_in = ""
    /\ depth_in = 0
    /\ cleaned = NoUrl
    /\ recleaned = NoUrl
    /\ priority_out = NoScore
    /\ pcU = "idle"

LinkIdle ==
    /\ page_url = <<>>
    /\ anchors = <<>>
    /\ page_links = <<>>
    /\ link_error = "none"
    /\ pcL = "idle"

SitemapIdle ==
    /\ sm_base_url = <<>>
    /\ candidate = 0
    /\ sitemaps = 0
    /\ child = 0
    /\ found_urls = <<>>
    /\ requested = <<>>
    /\ answers = <<>>
    /\ pcS = "idle"

JobIdle ==
    /\ now = 0
    /\ threads = <<>>
    /\ active_jobs = [j \in {} |-> 0]
    /\ cancels = <<>>

BatchIdle ==
    /\ base_urls = <<>>
    /\ max_workers = 1
    /\ futures = <<>>
    /\ crawlers = <<>>
    /\ results = <<>>
    /\ pcB = "idle"

LabelIdle ==
    /\ input_rows = <<>>
    /\ csv_rows = <<>>
    /\ output_csv = <<>>
    /\ row_idx = 0
    /\ replies = <<>>
    /\ pcW = "idle"

\* ------------------------------------------------------------- URL strings
PathTokens == {"/", "a", ";", "x"}
PairTokens == {"t", "k", "j", "b", "n"}

\* the key of a query parameter, and the parameter as urlencode writes it
\* ("e" without "=" is read as a blank value and written back as "e=")
Key(pair) ==
    IF pair = "t" THEN "utm_source"
    ELSE IF pair = "k" THEN "k"
    ELSE IF pair = "j" THEN "j"
    ELSE "e"
Encode(pair) == IF pair = "n" THEN "b" ELSE pair

\* the member of self.tracking_params that the tokens can spell
tracking_params == {"utm_source"}

\* str.lower on one token
Lower(tok) == IF tok = "X" THEN "x" ELSE tok

\* str.find from a position, and str.rfind; 0 when absent
IndexFrom(str, tok, from) ==
    IF \E i \in from..Len(str) : str[i] = tok
    THEN CHOOSE i \in from..Len(str) :
             str[i] = tok /\ \A j \in from..(i - 1) : str[j] # tok
    ELSE 0
LastIndexOf(str, tok) ==
    IF \E i \in 1..Len(str) : str[i] = tok
    THEN CHOOSE i \in 1..Len(str) :
             str[i] = tok /\ \A j \in (i + 1)..Len(str) : str[j] # tok
    ELSE 0

\* urllib.parse.urlparse of "https://host" followed by the tokens: the
\* fragment starts at the first "#", the query at the first "?" before it,
\* and the parameters at the first ";" of the last path segment
urlparse(url) ==
    LET hash     == IndexFrom(url, "#", 1)
        nofrag   == IF hash = 0 THEN url ELSE SubSeq(url, 1, hash - 1)
        qmark    == IndexFrom(nofrag, "?", 1)
        fullpath == IF qmark = 0 THEN nofrag ELSE SubSeq(nofrag, 1, qmark - 1)
        slash    == LastIndexOf(fullpath, "/")
        semi     == IndexFrom(fullpath, ";", Max(slash, 1))
    IN  [path     |-> IF semi = 0 THEN fullpath ELSE SubSeq(fullpath, 1, semi - 1),
         params   |-> IF semi = 0 THEN <<>> ELSE SubSeq(fullpath, semi + 1, Len(fullpath)),
         query    |-> IF qmark = 0 THEN <<>> ELSE SubSeq(nofrag, qmark + 1, Len(nofrag)),
         fragment |-> IF hash = 0 THEN <<>> ELSE SubSeq(url, hash + 1, Len(url))]

\* the keys of a list of parameters, each once, in order of first occurrence
RECURSIVE KeysInOrder(_)
KeysInOrder(pairs) ==
    IF pairs = <<>> THEN <<>>
    ELSE LET before == KeysInOrder(SubSeq(pairs, 1, Len(pairs) - 1))
             k == Key(pairs[Len(pairs)])
         IN  IF \E i \in 1..Len(before) : before[i] = k THEN before
             ELSE Append(before, k)

\* parse_qs(query, keep_blank_values=True): a dict, in insertion order, from
\* each key to the list of its parameters
parse_qs(query) ==
    LET pairs == SelectSeq(query, LAMBDA tok : tok \in PairTokens)
        keys == KeysInOrder(pairs)
    IN  [i \in 1..Len(keys) |-> <<keys[i], SelectSeq(pairs, LAMBDA pr : Key(pr) = keys[i])>>]

RECURSIVE JoinAmp(_)
JoinAmp(pairs) ==
    IF Len(pairs) <= 1 THEN pairs
    ELSE <<Head(pairs), "&">> \o JoinAmp(Tail(pairs))

\* urlencode(params, doseq=True): key by key, value by value, joined by "&"
RECURSIVE EncodeAll(_)
EncodeAll(params) ==
    IF params = <<>> THEN <<>>
    ELSE [i \in 1..Len(params[1][2]) |-> Encode(params[1][2][i])] \o EncodeAll(Tail(params))
urlencode(params) == JoinAmp(EncodeAll(params))

\* str.rstrip of one character
RECURSIVE rstrip(_, _)
rstrip(str, tok) ==
    IF str # <<>> /\ str[Len(str)] = tok
    THEN rstrip(SubSeq(str, 1, Len(str) - 1), tok)
    ELSE str

\* "clean_url.endswith('/') and len(parsed.path) > 1"
StripsSlash(clean, parsed) ==
    clean # <<>> /\ clean[Len(clean)] = "/" /\ Len(parsed.path) > 1

\* SmartCrawler.clean_url, lines 61-84
clean_url(url) ==
    LET parsed == urlparse(url)
        cleaned_params == SelectSeq(parse_qs(parsed.query),
                                    LAMBDA kv : kv[1] \notin tracking_params)
        clean == IF parsed.query # <<>> /\ cleaned_params # <<>>
                 THEN parsed.path \o <<"?">> \o urlencode(cleaned_params)
                 ELSE parsed.path
    IN  IF StripsSlash(clean, parsed) THEN rstrip(clean, "/") ELSE clean

\* SmartCrawler.should_skip_url, lines 86-92
should_skip_url(url) == \E i \in 1..Len(url) : Lower(url[i]) = "x"

\* len([p for p in path.strip('/').split('/') if p])
NumSegments(path) ==
    Cardinality({i \in 1..Len(path) : path[i] # "/" /\ (i = 1 \/ path[i - 1] = "/")})

\* the URLs clean_url is applied to: a path, perhaps a query, perhaps a fragment
InputPaths == {<<>>} \cup {<<"/">> \o str : str \in BoundedSeqs(PathTokens, MaxPathLen - 1)}
InputQueries == {<<>>} \cup {<<"?">> \o JoinAmp(pairs) : pairs \in BoundedSeqs(PairTokens, MaxParams)}
InputFragments == {<<>>, <<"#", "a">>}
InputUrls == {pa \o qu \o fr : pa \in InputPaths, qu \in InputQueries, fr \in InputFragments}

\* the spelling of the base URL that the caller hands to the constructor:
\* canonical, with a tracking parameter, or one the skip filter rejects
BaseSpellings == {<<"/">>, <<"/", "?", "t">>, <<"/", "X">>}

\* ------------------------------------------------------- calculate_priority
ContextBonus(context) ==
    IF context = "nav" THEN 30
    ELSE IF context = "footer" THEN 20
    ELSE IF context = "homepage" THEN 25
    ELSE 0

PathBonusThreeSteps(url_depth) ==
    IF url_depth = 1 THEN 20
    ELSE IF url_depth = 2 THEN 10
    ELSE IF url_depth = 3 THEN 0
    ELSE 0 - 20
PathBonus(url_depth) ==
    IF url_depth = 1 THEN 20
    ELSE IF url_depth = 2 THEN 10
    ELSE IF url_depth = 3 THEN 0
    ELSE IF url_depth = 4 THEN 0 - 10
    ELSE 0 - 20

\* lines 107-147, from what the function reads off the URL
PriorityScoreUnclamped(is_root, url_depth, has_qmark, context, depth) ==
    IF is_root THEN 100
    ELSE 50 + ContextBonus(context) + PathBonus(url_depth)
            - depth * 5 - (IF has_qmark THEN 5 ELSE 0)
PriorityScore(is_root, url_depth, has_qmark, context, depth) ==
    IF is_root THEN 100
    ELSE Max(0, Min(100, 50 + ContextBonus(context) + PathBonus(url_depth)
                         - depth * 5 - (IF has_qmark THEN 5 ELSE 0)))

\* calculate_priority of a URL of the crawl
calculate_priority(url, context, depth) ==
    PriorityScore(PathParts(url) = 0, PathParts(url), HasQuery(url), context, depth)

\* calculate_priority of a URL given as text
calculate_priority_str(url, context, depth) ==
    LET path == urlparse(url).path
    IN  PriorityScore(path \in {<<"/">>, <<>>}, NumSegments(path),
                      \E i \in 1..Len(url) : url[i] = "?", context, depth)

\* ------------------------------------------------ discover_important_pages
\* the budget test of the while condition and of the inner break
BudgetReached(discovered) == Cardinality(DOMAIN discovered) >= max_urls

\* the dequeue test: already crawled, or deeper than the limit
SkipEntry(current_url, current_depth, done) ==
    current_url \in done \/ current_depth > max_depth

\* the enqueue test of a newly discovered child
WithinDepthNoLimit(child_depth) == TRUE
WithinDepth(child_depth) == child_depth <= max_depth

\* one sitemap URL: recorded with depth 1 when new; the frontier is untouched
SeedOneEnqueue(st, url) ==
    IF url \notin DOMAIN st.discovered
    THEN [discovered |-> st.discovered @@ (url :> calculate_priority(url, "sitemap", 1)),
          depths     |-> st.depths @@ (url :> 1),
          queue      |-> Append(st.queue, <<url, 1>>)]
    ELSE st
SeedOnePathDepth(st, url) ==
    IF url \notin DOMAIN st.discovered
    THEN [discovered |-> st.discovered @@ (url :> calculate_priority(url, "sitemap", 1)),
          depths     |-> st.depths @@ (url :> PathParts(url)),
          queue      |-> st.queue]
    ELSE st
SeedOne(st, url) ==
    IF url \notin DOMAIN st.discovered
    THEN [discovered |-> st.discovered @@ (url :> calculate_priority(url, "sitemap", 1)),
          depths     |-> st.depths @@ (url :> 1),
          queue      |-> st.queue]
    ELSE st

RECURSIVE SeedAll(_, _)
SeedAll(st, urls) ==
    IF urls = <<>> THEN st ELSE SeedAll(SeedOne(st, Head(urls)), Tail(urls))

\* one link of the page: scored, and when new recorded and perhaps enqueued
AddLinkOverwrite(st, link, current_depth) ==
    LET url == link[1]
        priority == calculate_priority(url, link[2], current_depth + 1)
        keys == DOMAIN st.discovered \cup {url}
    IN  [discovered |-> [u \in keys |-> IF u = url THEN priority ELSE st.discovered[u]],
         depths     |-> [u \in keys |-> IF u = url THEN current_depth + 1 ELSE st.depths[u]],
         queue      |-> IF url \notin DOMAIN st.discovered /\ WithinDepth(current_depth + 1)
                        THEN Append(st.queue, <<url, current_depth + 1>>)
                        ELSE st.queue]
AddLinkFront(st, link, current_depth) ==
    LET url == link[1]
        priority == calculate_priority(url, link[2], current_depth + 1)
    IN  IF url \notin DOMAIN st.discovered
        THEN [discovered |-> st.discovered @@ (url :> priority),
              depths     |-> st.depths @@ (url :> current_depth + 1),
              queue      |-> IF WithinDepth(current_depth + 1)
                             THEN <<<<url, current_depth + 1>>>> \o st.queue
                             ELSE st.queue]
        ELSE st
AddLink(st, link, current_depth) ==
    LET url == link[1]
        priority == calculate_priority(url, link[2], current_depth + 1)
    IN  IF url \notin DOMAIN st.discovered
        THEN [discovered |-> st.discovered @@ (url :> priority),
              depths     |-> st.depths @@ (url :> current_depth + 1),
              queue      |-> IF WithinDepth(current_depth + 1)
                             THEN Append(st.queue, <<url, current_depth + 1>>)
                             ELSE st.queue]
        ELSE st

\* the for loop over page_links.items(), with its break on the budget
RECURSIVE ProcessLinks(_, _, _)
ProcessLinks(st, links, current_depth) ==
    IF links = <<>> \/ BudgetReached(st.discovered) THEN st
    ELSE ProcessLinks(AddLink(st, Head(links), current_depth), Tail(links), current_depth)

\* the context under which a page lists a url: "homepage" only on the base
\* page, "body" only elsewhere
ContextOf(page, url) ==
    IF (page + url) % 3 = 0 THEN "nav"
    ELSE IF (page + url) % 3 = 1 THEN "footer"
    ELSE IF page = base_url THEN "homepage" ELSE "body"

\* the text of a URL of the crawl: the base URL as the caller spelled it,
\* any other with PathParts segments and, when HasQuery, one kept parameter
UrlText(url) ==
    IF url = base_url THEN base_url_str
    ELSE [i \in 1..(2 * PathParts(url)) |-> IF i % 2 = 1 THEN "/" ELSE "a"]
         \o (IF HasQuery(url) THEN <<"?", "k">> ELSE <<>>)

\* the URLs that parse_sitemap and extract_all_links can return, which put
\* every URL through clean_url and should_skip_url: the base URL is one of
\* them only when it is spelled as those two leave it
LinkableSpellings ==
    {str \in BaseSpellings : clean_url(str) = str /\ ~should_skip_url(str)}
Linkable == IF base_url_str \in LinkableSpellings THEN Urls ELSE Urls \ {base_url}

\* what extract_all_links(url) can return: distinct urls in dict order, each
\* with one context (the empty result covers the fetch error)
LinkLists == DistinctSeqs(Urls, MaxLinks)
LinkListsOffBase == DistinctSeqs(Urls \ {base_url}, MaxLinks)
LinkResults(url) ==
    {[i \in 1..Len(s) |-> <<s[i], ContextOf(url, s[i])>>] :
         s \in (IF Linkable = Urls THEN LinkLists ELSE LinkListsOffBase)}

\* a dict keeps its keys in insertion order: the keys of discovered that
\* order does not hold yet, appended in the order urls names them
RECURSIVE AppendNew(_, _, _)
AppendNew(order, urls, discovered) ==
    IF urls = <<>> THEN order
    ELSE LET url == Head(urls)
             known == \E i \in 1..Len(order) : order[i] = url
         IN  AppendNew(IF url \in DOMAIN discovered /\ ~known
                       THEN Append(order, url) ELSE order,
                       Tail(urls), discovered)

LinkUrls(links) == [i \in 1..Len(links) |-> links[i][1]]

InitCrawl ==
    /\ max_urls \in 1..MaxBudget
    /\ discovered_urls = EmptyMap
    /\ url_depths = EmptyMap
    /\ to_crawl = <<>>
    /\ crawled = {}
    /\ sitemap_urls = <<>>
    /\ base_url_str \in BaseSpellings
    /\ relinked = FALSE
    /\ crawl_log = <<>>
    /\ discovered_order = <<>>
    /\ rows = <<>>
    /\ pcD = "constructed"
    /\ PipeIdle
    /\ FetchIdle
    /\ UrlIdle
    /\ LinkIdle
    /\ SitemapIdle
    /\ JobIdle
    /\ BatchIdle
    /\ LabelIdle

\* lines 296-301
DiscoverInit ==
    /\ pcD = "constructed"
    /\ discovered_urls' = (base_url :> 100)
    /\ url_depths' = (base_url :> 0)
    /\ discovered_order' = <<base_url>>
    /\ to_crawl' = <<<<base_url, 0>>>>
    /\ crawled' = {}
    /\ pcD' = "sitemap"
    /\ UNCHANGED <<base_url_str, max_urls, sitemap_urls, relinked, crawl_log, rows>>
    /\ UNCHANGED <<pipeVars, fetchVars, urlVars, linkVars, sitemapVars, jobVars, batchVars,
                   labelVars>>

\* what parse_sitemap() can return: sitemap entries in document order,
\* repeats included; the host of an entry is not looked at (lines 189-192 and
\* 200-204), so the URL of another host can be among them (here as the last
\* of at most two entries)
WithOffSite(lists) ==
    lists \cup {Append(s, OffSiteUrl) : s \in {l \in lists : Len(l) < Min(MaxSitemap, 2)}}
SitemapLists == WithOffSite(BoundedSeqs(Urls, MaxSitemap))
SitemapListsOffBase == WithOffSite(BoundedSeqs(Urls \ {base_url}, MaxSitemap))

\* lines 304-310
SeedSitemap ==
    /\ pcD = "sitemap"
    /\ \E found \in (IF Linkable = Urls THEN SitemapLists ELSE SitemapListsOffBase) :
         LET st == SeedAll([discovered |-> discovered_urls, depths |-> url_depths,
                            queue |-> to_crawl], found)
         IN  /\ sitemap_urls' = found
             /\ discovered_urls' = st.discovered
             /\ discovered_order' = AppendNew(discovered_order, found, st.discovered)
             /\ url_depths' = st.depths
             /\ to_crawl' = st.queue
    /\ pcD' = "bfs"
    /\ UNCHANGED <<base_url_str, max_urls, crawled, relinked, crawl_log, rows>>
    /\ UNCHANGED <<pipeVars, fetchVars, urlVars, linkVars, sitemapVars, jobVars, batchVars,
                   labelVars>>

\* a breadth-first walk written without visited bookkeeping: every link is
\* enqueued again and a dequeued page is always fetched
RECURSIVE ProcessLinksNoDedup(_, _, _)
ProcessLinksNoDedup(st, links, current_depth) ==
    IF links = <<>> \/ BudgetReached(st.discovered) THEN st
    ELSE LET s1 == AddLink(st, Head(links), current_depth)
             s2 == IF WithinDepth(current_depth + 1) /\ s1.queue = st.queue
                   THEN [s1 EXCEPT !.queue = Append(st.queue, <<Head(links)[1], current_depth + 1>>)]
                   ELSE s1
         IN  ProcessLinksNoDedup(s2, Tail(links), current_depth)

BfsIterationNoDedup ==
    /\ pcD = "bfs"
    /\ to_crawl # <<>>
    /\ ~BudgetReached(discovered_urls)
    /\ LET current_url == Head(to_crawl)[1]
           current_depth == Head(to_crawl)[2]
       IN  IF current_depth > max_depth
           THEN /\ to_crawl' = Tail(to_crawl)
                /\ UNCHANGED <<discovered_urls, url_depths, crawled, relinked, crawl_log,
                               discovered_order>>
           ELSE \E links \in LinkResults(current_url) :
                  LET st == ProcessLinksNoDedup([discovered |-> discovered_urls,
                                                depths |-> url_depths,
                                                queue |-> Tail(to_crawl)], links, current_depth)
                  IN  /\ crawled' = crawled \cup {current_url}
                      /\ crawl_log' = Append(crawl_log, <<current_url, current_depth>>)
                      /\ relinked' = (relinked \/ \E i \in 1..Len(links) : links[i][1] \in crawled')
                      /\ discovered_urls' = st.discovered
                      /\ discovered_order' = AppendNew(discovered_order, LinkUrls(links), st.discovered)
                      /\ url_depths' = st.depths
                      /\ to_crawl' = st.queue
    /\ UNCHANGED <<base_url_str, max_urls, sitemap_urls, pcD, rows>>
    /\ UNCHANGED <<pipeVars, fetchVars, urlVars, linkVars, sitemapVars, jobVars, batchVars,
                   labelVars>>

\* one iteration of the while loop, lines 315-342
BfsIteration ==
    /\ pcD = "bfs"
    /\ to_crawl # <<>>
    /\ ~BudgetReached(discovered_urls)
    /\ LET current_url == Head(to_crawl)[1]
           current_depth == Head(to_crawl)[2]
       IN  IF SkipEntry(current_url, current_depth, crawled)
           THEN /\ to_crawl' = Tail(to_crawl)
                /\ UNCHANGED <<discovered_urls, url_depths, crawled, relinked, crawl_log,
                               discovered_order>>
           ELSE \E links \in LinkResults(current_url) :
                  LET st == ProcessLinks([discovered |-> discovered_urls,
                                          depths |-> url_depths,
                                          queue |-> Tail(to_crawl)], links, current_depth)
                  IN  /\ crawled' = crawled \cup {current_url}
                      /\ crawl_log' = Append(crawl_log, <<current_url, current_depth>>)
                      /\ relinked' = (relinked \/ \E i \in 1..Len(links) : links[i][1] \in crawled')
                      /\ discovered_urls' = st.discovered
                      /\ discovered_order' = AppendNew(discovered_order, LinkUrls(links), st.discovered)
                      /\ url_depths' = st.depths
                      /\ to_crawl' = st.queue
    /\ UNCHANGED <<base_url_str, max_urls, sitemap_urls, pcD, rows>>
    /\ UNCHANGED <<pipeVars, fetchVars, urlVars, linkVars, sitemapVars, jobVars, batchVars,
                   labelVars>>

\* the while condition fails, lines 315 and 344
BfsDoneWhenEmpty ==
    /\ pcD = "bfs"
    /\ to_crawl = <<>>
    /\ pcD' = "done"
    /\ UNCHANGED <<base_url_str, max_urls, discovered_urls, url_depths, to_crawl, crawled,
                   sitemap_urls, relinked, crawl_log, discovered_order, rows>>
    /\ UNCHANGED <<pipeVars, fetchVars, urlVars, linkVars, sitemapVars, jobVars, batchVars,
                   labelVars>>
BfsDone ==
    /\ pcD = "bfs"
    /\ (to_crawl = <<>> \/ BudgetReached(discovered_urls))
    /\ pcD' = "done"
    /\ UNCHANGED <<base_url_str, max_urls, discovered_urls, url_depths, to_crawl, crawled,
                   sitemap_urls, relinked, crawl_log, discovered_order, rows>>
    /\ UNCHANGED <<pipeVars, fetchVars, urlVars, linkVars, sitemapVars, jobVars, batchVars,
                   labelVars>>

\* sorted(self.discovered_urls.items(), key=lambda x: x[1], reverse=True),
\* line 350, on the keys in dict order: a stable sort, so an item comes after
\* the items of higher priority and after the items of its own priority that
\* went in before it
RankAscending(keys, priority, i) ==
    1 + Cardinality({j \in 1..Len(keys) :
                        \/ priority[keys[j]] < priority[keys[i]]
                        \/ (priority[keys[j]] = priority[keys[i]] /\ j < i)})
Rank(keys, priority, i) ==
    1 + Cardinality({j \in 1..Len(keys) :
                        \/ priority[keys[j]] > priority[keys[i]]
                        \/ (priority[keys[j]] = priority[keys[i]] /\ j < i)})
SortedAscending(keys, priority) ==
    [p \in 1..Len(keys) |->
        LET i == CHOOSE k \in 1..Len(keys) : RankAscending(keys, priority, k) = p
        IN  <<keys[i], priority[keys[i]]>>]
sorted_urls(keys, priority) ==
    [p \in 1..Len(keys) |->
        LET i == CHOOSE k \in 1..Len(keys) : Rank(keys, priority, k) = p
        IN  <<keys[i], priority[keys[i]]>>]

\* the slice [:n], line 353
TakeLast(seq, n) == SubSeq(seq, Len(seq) - Min(n, Len(seq)) + 1, Len(seq))
Take(seq, n) == SubSeq(seq, 1, Min(n, Len(seq)))

\* writer.writerow([url, '', priority]), line 361
Row(item) == <<item[1], "", item[2]>>

\* save_results, lines 347-366, called by crawl() once discovery has returned
SaveResults ==
    /\ pcD = "done"
    /\ \E sorted \in {Take(sorted_urls(discovered_order, discovered_urls), max_urls)} :
          rows' = [i \in 1..Len(sorted) |-> Row(sorted[i])]
    /\ pcD' = "saved"
    /\ UNCHANGED <<base_url_str, max_urls, discovered_urls, url_depths, to_crawl, crawled,
                   sitemap_urls, relinked, crawl_log, discovered_order>>
    /\ UNCHANGED <<pipeVars, fetchVars, urlVars, linkVars, sitemapVars, jobVars, batchVars,
                   labelVars>>

NextCrawl == DiscoverInit \/ SeedSitemap \/ BfsIteration \/ BfsDone \/ SaveResults

SpecCrawl == InitCrawl /\ [][NextCrawl]_vars

\* discover_important_pages runs in one thread that is never held back: every
\* request it makes carries timeout=10, so a step that can be taken is taken
SpecCrawlFair == SpecCrawl /\ WF_vars(NextCrawl)

\* ------------------------------------------------------------- the pipeline
\* "job_id and job_cancellation and job_cancellation.get(job_id)"
CancelRequested ==
    /\ job_id # NoJobId
    /\ job_id \in DOMAIN job_cancellation
    /\ job_cancellation[job_id]

\* what one pass of the producer's loop body can come to: the artifact is
\* saved, the fetch is reported failed, or the body raises (no result record,
\* or an I/O error while saving the artifact)
FetchOutcomes == {"ok", "failed", "raised"}

\* Queue.put and Queue.get of queue.Queue: first in, first out
QueuePut(queue, item) == Append(queue, item)
QueueGetLast(queue) == [item |-> queue[Len(queue)], rest |-> SubSeq(queue, 1, Len(queue) - 1)]
QueueGet(queue) == [item |-> Head(queue), rest |-> Tail(queue)]

InitPipe ==
    /\ job_id \in {NoJobId, JobId}
    /\ job_cancellation = (JobId :> FALSE)
    /\ num_useful \in (IF job_id = NoJobId THEN 1..MaxUseful ELSE 0..MaxUseful)
    /\ file_queue = <<>>
    /\ idx = 0
    /\ failed_urls = <<>>
    /\ pcP = "start"
    /\ producer_exit = "none"
    /\ fetch_started = 0
    /\ enqueued = <<>>
    /\ pcC = "check"
    /\ filepath = None
    /\ file_count = 0
    /\ accumulated_data = <<>>
    /\ progress_file = Unwritten
    /\ output_file = Unwritten
    /\ consumer_exit = "none"
    /\ processed = <<>>
    /\ ai_failed = {}
    /\ drained = <<>>
    /\ cancel_at = NotCancelled
    /\ CrawlIdle
    /\ FetchIdle
    /\ UrlIdle
    /\ LinkIdle
    /\ SitemapIdle
    /\ JobIdle
    /\ BatchIdle
    /\ LabelIdle

consumerVars == <<pcC, filepath, file_count, accumulated_data, progress_file,
                  output_file, consumer_exit, processed, ai_failed, drained>>
producerVars == <<idx, failed_urls, pcP, producer_exit, fetch_started, enqueued>>

\* extract_content, lines 218-233: the useful urls are read; with none of
\* them the sentinel is put and the producer returns
ProducerStart ==
    /\ pcP = "start"
    /\ IF num_useful = 0
       THEN /\ file_queue' = QueuePut(file_queue, None)
            /\ enqueued' = Append(enqueued, None)
            /\ pcP' = "returned"
            /\ producer_exit' = "no_urls"
            /\ idx' = idx
       ELSE /\ idx' = 1
            /\ pcP' = "loop"
            /\ UNCHANGED <<file_queue, enqueued, producer_exit>>
    /\ UNCHANGED <<job_id, job_cancellation, num_useful, failed_urls, fetch_started,
                   consumerVars, cancel_at>>
    /\ UNCHANGED <<crawlVars, fetchVars, urlVars, linkVars, sitemapVars, jobVars,
                   batchVars, labelVars>>

\* lines 251-261: the flag is seen set before a url
ProducerObserveCancelNoSentinel ==
    /\ pcP = "loop"
    /\ idx <= num_useful
    /\ CancelRequested
    /\ pcP' = "returned"
    /\ producer_exit' = "cancelled"
    /\ UNCHANGED <<job_id, job_cancellation, num_useful, idx, failed_urls, fetch_started,
                   file_queue, enqueued, consumerVars, cancel_at>>
    /\ UNCHANGED <<crawlVars, fetchVars, urlVars, linkVars, sitemapVars, jobVars,
                   batchVars, labelVars>>
ProducerObserveCancel ==
    /\ pcP = "loop"
    /\ idx <= num_useful
    /\ CancelRequested
    /\ file_queue' = QueuePut(file_queue, None)
    /\ enqueued' = Append(enqueued, None)
    /\ pcP' = "returned"
    /\ producer_exit' = "cancelled"
    /\ UNCHANGED <<job_id, job_cancellation, num_useful, idx, failed_urls, fetch_started,
                   consumerVars, cancel_at>>
    /\ UNCHANGED <<crawlVars, fetchVars, urlVars, linkVars, sitemapVars, jobVars,
                   batchVars, labelVars>>

\* lines 251-269: the flag is not seen set, extract_clean_content is called
ProducerStartFetch ==
    /\ pcP = "loop"
    /\ idx <= num_useful
    /\ ~CancelRequested
    /\ pcP' = "fetch"
    /\ fetch_started' = fetch_started + 1
    /\ UNCHANGED <<job_id, job_cancellation, num_useful, file_queue, idx, failed_urls,
                   producer_exit, enqueued, consumerVars, cancel_at>>
    /\ UNCHANGED <<crawlVars, fetchVars, urlVars, linkVars, sitemapVars, jobVars,
                   batchVars, labelVars>>

\* lines 269-281: the call is back
ProducerFetchDone ==
    /\ pcP = "fetch"
    /\ \E outcome \in FetchOutcomes :
         \/ /\ outcome = "ok"
            /\ file_queue' = QueuePut(file_queue, idx)
            /\ enqueued' = Append(enqueued, idx)
            /\ idx' = idx + 1
            /\ pcP' = "loop"
            /\ UNCHANGED <<failed_urls, producer_exit>>
         \/ /\ outcome = "failed"
            /\ failed_urls' = Append(failed_urls, idx)
            /\ idx' = idx + 1
            /\ pcP' = "loop"
            /\ UNCHANGED <<file_queue, enqueued, producer_exit>>
         \/ /\ outcome = "raised"
            /\ pcP' = "raised"
            /\ producer_exit' = "raised"
            /\ UNCHANGED <<file_queue, enqueued, idx, failed_urls>>
    /\ UNCHANGED <<job_id, job_cancellation, num_useful, fetch_started, consumerVars, cancel_at>>
    /\ UNCHANGED <<crawlVars, fetchVars, urlVars, linkVars, sitemapVars, jobVars,
                   batchVars, labelVars>>

\* lines 283-297: the url list is exhausted
ProducerExhausted ==
    /\ pcP = "loop"
    /\ idx > num_useful
    /\ file_queue' = QueuePut(file_queue, None)
    /\ enqueued' = Append(enqueued, None)
    /\ pcP' = "returned"
    /\ producer_exit' = "exhausted"
    /\ UNCHANGED <<job_id, job_cancellation, num_useful, idx, failed_urls, fetch_started,
                   consumerVars, cancel_at>>
    /\ UNCHANGED <<crawlVars, fetchVars, urlVars, linkVars, sitemapVars, jobVars,
                   batchVars, labelVars>>

\* extract_values_from_queue, lines 379-404: the test at the top of the loop
ConsumerCheck ==
    /\ pcC = "check"
    /\ pcC' = IF CancelRequested THEN "drain" ELSE "get"
    /\ UNCHANGED <<filepath, file_count, accumulated_data, progress_file, output_file,
                   consumer_exit, processed, ai_failed, drained>>
    /\ UNCHANGED <<job_id, job_cancellation, num_useful, file_queue, producerVars, cancel_at>>
    /\ UNCHANGED <<crawlVars, fetchVars, urlVars, linkVars, sitemapVars, jobVars,
                   batchVars, labelVars>>

\* lines 388-391: one item is removed unprocessed
ConsumerDrainOne ==
    /\ pcC = "drain"
    /\ file_queue # <<>>
    /\ drained' = Append(drained, Head(file_queue))
    /\ file_queue' = Tail(file_queue)
    /\ UNCHANGED <<pcC, filepath, file_count, accumulated_data, progress_file, output_file,
                   consumer_exit, processed, ai_failed>>
    /\ UNCHANGED <<job_id, job_cancellation, num_useful, producerVars, cancel_at>>
    /\ UNCHANGED <<crawlVars, fetchVars, urlVars, linkVars, sitemapVars, jobVars,
                   batchVars, labelVars>>

\* line 388: the queue is seen empty
ConsumerDrainEnd ==
    /\ pcC = "drain"
    /\ file_queue = <<>>
    /\ pcC' = "save_partial"
    /\ UNCHANGED <<filepath, file_count, accumulated_data, progress_file, output_file,
                   consumer_exit, processed, ai_failed, drained>>
    /\ UNCHANGED <<job_id, job_cancellation, num_useful, file_queue, producerVars, cancel_at>>
    /\ UNCHANGED <<crawlVars, fetchVars, urlVars, linkVars, sitemapVars, jobVars,
                   batchVars, labelVars>>

\* lines 394-402: partial results are saved when a file was processed
SavePartialAlways(count, data, file) == Written(data)
SavePartial(count, data, file) == IF count > 0 THEN Written(data) ELSE file

ConsumerSavePartial ==
    /\ pcC = "save_partial"
    /\ output_file' = SavePartial(file_count, accumulated_data, output_file)
    /\ pcC' = "exited"
    /\ consumer_exit' = "cancelled"
    /\ UNCHANGED <<filepath, file_count, accumulated_data, progress_file,
                   processed, ai_failed, drained>>
    /\ UNCHANGED <<job_id, job_cancellation, num_useful, file_queue, producerVars, cancel_at>>
    /\ UNCHANGED <<crawlVars, fetchVars, urlVars, linkVars, sitemapVars, jobVars,
                   batchVars, labelVars>>

\* lines 404-410: the blocking get returns an item
ConsumerGet ==
    /\ pcC = "get"
    /\ file_queue # <<>>
    /\ LET got == QueueGet(file_queue)
       IN  /\ file_queue' = got.rest
           /\ filepath' = got.item
           /\ IF got.item = None
              THEN pcC' = "final" /\ file_count' = file_count
              ELSE pcC' = "process" /\ file_count' = file_count + 1
    /\ UNCHANGED <<accumulated_data, progress_file, output_file, consumer_exit,
                   processed, ai_failed, drained>>
    /\ UNCHANGED <<job_id, job_cancellation, num_useful, producerVars, cancel_at>>
    /\ UNCHANGED <<crawlVars, fetchVars, urlVars, linkVars, sitemapVars, jobVars,
                   batchVars, labelVars>>

\* value_extraction.extract_value_from_file: the returned snapshot replaces the
\* current one; when the call fails the current one is returned
extract_value_from_fileResets(file, current_data, ok) ==
    IF ok THEN Append(current_data, file) ELSE <<>>
extract_value_from_file(file, current_data, ok) ==
    IF ok THEN Append(current_data, file) ELSE current_data

\* lines 418-429: the extraction call, then save_progress
ConsumerProcessDropsResult ==
    /\ pcC = "process"
    /\ \E ok \in BOOLEAN :
         /\ accumulated_data' = accumulated_data
         /\ ai_failed' = IF ok THEN ai_failed ELSE ai_failed \cup {filepath}
    /\ progress_file' = Written(accumulated_data')
    /\ processed' = Append(processed, filepath)
    /\ pcC' = "check"
    /\ UNCHANGED <<filepath, file_count, output_file, consumer_exit, drained>>
    /\ UNCHANGED <<job_id, job_cancellation, num_useful, file_queue, producerVars, cancel_at>>
    /\ UNCHANGED <<crawlVars, fetchVars, urlVars, linkVars, sitemapVars, jobVars,
                   batchVars, labelVars>>
ConsumerProcess ==
    /\ pcC = "process"
    /\ \E ok \in BOOLEAN :
         /\ accumulated_data' = extract_value_from_file(filepath, accumulated_data, ok)
         /\ ai_failed' = IF ok THEN ai_failed ELSE ai_failed \cup {filepath}
    /\ progress_file' = Written(accumulated_data')
    /\ processed' = Append(processed, filepath)
    /\ pcC' = "check"
    /\ UNCHANGED <<filepath, file_count, output_file, consumer_exit, drained>>
    /\ UNCHANGED <<job_id, job_cancellation, num_useful, file_queue, producerVars, cancel_at>>
    /\ UNCHANGED <<crawlVars, fetchVars, urlVars, linkVars, sitemapVars, jobVars,
                   batchVars, labelVars>>

\* lines 407-408 and 431-437: the sentinel was read, the final output is saved
ConsumerFinalSave ==
    /\ pcC = "final"
    /\ output_file' = Written(accumulated_data)
    /\ pcC' = "exited"
    /\ consumer_exit' = "sentinel"
    /\ UNCHANGED <<filepath, file_count, accumulated_data, progress_file,
                   processed, ai_failed, drained>>
    /\ UNCHANGED <<job_id, job_cancellation, num_useful, file_queue, producerVars, cancel_at>>
    /\ UNCHANGED <<crawlVars, fetchVars, urlVars, linkVars, sitemapVars, jobVars,
                   batchVars, labelVars>>

\* app.cancel_job, lines 403-407: the flag of a registered job is set
CancelJob ==
    /\ JobId \in DOMAIN job_cancellation
    /\ job_cancellation' = [job_cancellation EXCEPT ![JobId] = TRUE]
    /\ cancel_at' = IF cancel_at = NotCancelled THEN file_count ELSE cancel_at
    /\ UNCHANGED <<job_id, num_useful, file_queue, producerVars, consumerVars>>
    /\ UNCHANGED <<crawlVars, fetchVars, urlVars, linkVars, sitemapVars, jobVars,
                   batchVars, labelVars>>

\* run_pipeline_async, lines 181-207: the producer is back and the consumer
\* thread joined, or the producer raised; the job's flag is deleted
JobFinish ==
    /\ \/ pcP = "returned" /\ pcC = "exited"
       \/ pcP = "raised"
    /\ pcP' = "finished"
    /\ job_cancellation' = NoFlags
    /\ UNCHANGED <<job_id, num_useful, file_queue, idx, failed_urls, producer_exit,
                   fetch_started, enqueued, consumerVars, cancel_at>>
    /\ UNCHANGED <<crawlVars, fetchVars, urlVars, linkVars, sitemapVars, jobVars,
                   batchVars, labelVars>>

NextPipe ==
    \/ ProducerStart \/ ProducerObserveCancel \/ ProducerStartFetch
    \/ ProducerFetchDone \/ ProducerExhausted
    \/ ConsumerCheck \/ ConsumerDrainOne \/ ConsumerDrainEnd \/ ConsumerSavePartial
    \/ ConsumerGet \/ ConsumerProcess \/ ConsumerFinalSave
    \/ CancelJob \/ JobFinish

SpecPipe == InitPipe /\ [][NextPipe]_vars

\* the two pipeline threads and the job's own thread each go on running
ProducerStep ==
    \/ ProducerStart \/ ProducerObserveCancel \/ ProducerStartFetch
    \/ ProducerFetchDone \/ ProducerExhausted
ConsumerStep ==
    \/ ConsumerCheck \/ ConsumerDrainOne \/ ConsumerDrainEnd \/ ConsumerSavePartial
    \/ ConsumerGet \/ ConsumerProcess \/ ConsumerFinalSave
SpecPipeFair ==
    /\ SpecPipe
    /\ WF_vars(ProducerStep)
    /\ WF_vars(ConsumerStep)
    /\ WF_vars(JobFinish)

\* ---------------------------------------------------- extract_clean_content
Pow2Doubled(n) == 2 * n
\* 2 ** n, lines 233 and 251
RECURSIVE Pow2(_)
Pow2(n) == IF n = 0 THEN 1 ELSE 2 * Pow2(n - 1)

\* how one pass of the try block can end: the page is parsed, requests raises
\* Timeout, requests raises another RequestException, anything else is raised
AttemptOutcomes == {"ok", "timeout", "request_error", "error"}
TransientOrNot == {"timeout", "request_error", "error"}
Transient == {"timeout", "request_error"}

ResultRecord(ok, err, n) ==
    [kind |-> "result", extraction_successful |-> ok, error |-> err, attempts |-> n]
\* falling off the end of the function
ReturnsNone == [kind |-> "None"]

\* "if attempt < self.max_retries - 1": sleep and go round again
RetryAllowedOneMore(n) == n < max_retries
RetryAllowed(n) == n < max_retries - 1

InitFetch ==
    /\ max_retries \in 0..MaxRetries
    /\ attempt = 0
    /\ outcomes = <<>>
    /\ waits = <<>>
    /\ result = NoResult
    /\ pcF = "loop"
    /\ CrawlIdle
    /\ PipeIdle
    /\ UrlIdle
    /\ LinkIdle
    /\ SitemapIdle
    /\ JobIdle
    /\ BatchIdle
    /\ LabelIdle

\* one pass of "for attempt in range(self.max_retries)", lines 141-273
FetchAttempt ==
    /\ pcF = "loop"
    /\ attempt < max_retries
    /\ \E outcome \in AttemptOutcomes :
         /\ outcomes' = Append(outcomes, outcome)
         /\ IF outcome = "ok"
            THEN /\ result' = ResultRecord(TRUE, "none", attempt + 1)
                 /\ pcF' = "returned"
                 /\ UNCHANGED <<attempt, waits>>
            ELSE IF outcome \in Transient
            THEN IF RetryAllowed(attempt)
                 THEN /\ waits' = Append(waits, Pow2(attempt + 1))
                      /\ attempt' = attempt + 1
                      /\ UNCHANGED <<result, pcF>>
                 ELSE /\ result' = ResultRecord(FALSE, outcome, max_retries)
                      /\ pcF' = "returned"
                      /\ UNCHANGED <<attempt, waits>>
            ELSE /\ result' = ResultRecord(FALSE, outcome, attempt + 1)
                 /\ pcF' = "returned"
                 /\ UNCHANGED <<attempt, waits>>
    /\ UNCHANGED max_retries
    /\ UNCHANGED <<crawlVars, pipeVars, urlVars, linkVars, sitemapVars, jobVars, batchVars,
                   labelVars>>

\* the range is exhausted without a return: the function ends, line 273
FetchFallThrough ==
    /\ pcF = "loop"
    /\ attempt >= max_retries
    /\ result' = ReturnsNone
    /\ pcF' = "returned"
    /\ UNCHANGED <<max_retries, attempt, outcomes, waits>>
    /\ UNCHANGED <<crawlVars, pipeVars, urlVars, linkVars, sitemapVars, jobVars, batchVars,
                   labelVars>>

NextFetch == FetchAttempt \/ FetchFallThrough

SpecFetch == InitFetch /\ [][NextFetch]_vars

\* ------------------------------------------------------------------ clean_url
InitUrl ==
    /\ url_in \in InputUrls
    /\ context_in = ""
    /\ depth_in = 0
    /\ cleaned = NoUrl
    /\ recleaned = NoUrl
    /\ priority_out = NoScore
    /\ pcU = "input"
    /\ CrawlIdle
    /\ PipeIdle
    /\ FetchIdle
    /\ LinkIdle
    /\ SitemapIdle
    /\ JobIdle
    /\ BatchIdle
    /\ LabelIdle

\* clean_url(url)
CleanUrl ==
    /\ pcU = "input"
    /\ cleaned' = clean_url(url_in)
    /\ pcU' = "cleaned"
    /\ UNCHANGED <<url_in, context_in, depth_in, recleaned, priority_out>>
    /\ UNCHANGED <<crawlVars, pipeVars, fetchVars, linkVars, sitemapVars, jobVars,
                   batchVars, labelVars>>

\* clean_url applied to the URL it returned
CleanAgain ==
    /\ pcU = "cleaned"
    /\ recleaned' = clean_url(cleaned)
    /\ pcU' = "recleaned"
    /\ UNCHANGED <<url_in, context_in, depth_in, cleaned, priority_out>>
    /\ UNCHANGED <<crawlVars, pipeVars, fetchVars, linkVars, sitemapVars, jobVars,
                   batchVars, labelVars>>

NextUrl == CleanUrl \/ CleanAgain

SpecUrl == InitUrl /\ [][NextUrl]_vars

\* --------------------------------------------------------- calculate_priority
\* the arguments calculate_priority is called with (lines 308 and 333): a URL
\* that clean_url returned, the context of a link or 'sitemap' (and the
\* default ''), a crawl depth
ScorePaths ==
    {[i \in 1..(2 * n) |-> IF i % 2 = 1 THEN "/" ELSE "a"] \o tail :
         n \in 0..MaxSegments, tail \in {<<>>, <<"/">>, <<"/", "/">>}}
ScoreUrls == {clean_url(pa \o qu) : pa \in ScorePaths, qu \in {<<>>, <<"?", "k">>, <<"?", "t">>}}
ContextArgs == Contexts \cup {"sitemap", ""}

InitScore ==
    /\ url_in \in ScoreUrls
    /\ context_in \in ContextArgs
    /\ depth_in \in 0..MaxCrawlDepth
    /\ cleaned = NoUrl
    /\ recleaned = NoUrl
    /\ priority_out = NoScore
    /\ pcU = "scoring"
    /\ CrawlIdle
    /\ PipeIdle
    /\ FetchIdle
    /\ LinkIdle
    /\ SitemapIdle
    /\ JobIdle
    /\ BatchIdle
    /\ LabelIdle

\* calculate_priority(url, context, depth)
Score ==
    /\ pcU = "scoring"
    /\ priority_out' = calculate_priority_str(url_in, context_in, depth_in)
    /\ pcU' = "scored"
    /\ UNCHANGED <<url_in, context_in, depth_in, cleaned, recleaned>>
    /\ UNCHANGED <<crawlVars, pipeVars, fetchVars, linkVars, sitemapVars, jobVars,
                   batchVars, labelVars>>

NextScore == Score

SpecScore == InitScore /\ [][NextScore]_vars

\* ------------------------------------------------------- extract_all_links
\* the href values of the page: a path on the crawled host (one with a
\* trailing slash, one that holds a skip pattern), a fragment link, a link to
\* another host, and "//[", which urljoin rejects with ValueError
Hrefs == {<<"/", "a">>, <<"/", "a", "/">>, <<"/", "x">>, <<"#", "a">>,
          <<"//other", "/", "a">>, <<"//[">>}

\* an <a href> element and whether a nav/header or a footer element encloses it
Anchors == [href : Hrefs, in_nav : BOOLEAN, in_footer : BOOLEAN]

\* the page read: self.base_url ("https://host/") or another page
LinksBaseUrl == <<"/">>
PageUrls == {LinksBaseUrl, <<"/", "a">>}

\* href.startswith(('#', 'javascript:', 'mailto:', 'tel:'))
IgnoredHref(href) == href[1] = "#"
\* urljoin(url, href) raises
urljoinRaises(href) == href[1] = "//["
\* urlparse(absolute_url).netloc == self.domain
SameDomain(href) == href[1] # "//other"

\* self.clean_url(absolute_url), for the hrefs that get that far
HrefUrl == [href \in {h \in Hrefs : ~IgnoredHref(h) /\ ~urljoinRaises(h) /\ SameDomain(h)}
                |-> clean_url(href)]

\* a dict as pairs in insertion order: its keys, and dict[key] = value
Keys(dict) == {dict[i][1] : i \in 1..Len(dict)}
SetItem(dict, key, value) ==
    IF key \in Keys(dict)
    THEN [i \in 1..Len(dict) |-> IF dict[i][1] = key THEN <<key, value>> ELSE dict[i]]
    ELSE Append(dict, <<key, value>>)

\* "and clean_url not in links": asked in the footer and the body pass
\* (lines 260, 271), not in the nav pass (line 248)
KeepsFirstNever(context) == FALSE
KeepsFirst(context) == context # "nav"

\* an error inside the try block leaves through the except clause
HrefErrorClearsLinks(st) == [links |-> <<>>, error |-> "href"]
HrefError(st) == [st EXCEPT !.error = "href"]

\* "if not self.should_skip_url(clean_url) [and clean_url not in links]:
\* links[clean_url] = context"
StoreLink(st, url, context) ==
    IF should_skip_url(url) \/ (KeepsFirst(context) /\ url \in Keys(st.links))
    THEN st
    ELSE [st EXCEPT !.links = SetItem(st.links, url, context)]

\* the body of one of the three loops for one anchor
ReadAnchor(st, anchor, context) ==
    IF IgnoredHref(anchor.href) THEN st
    ELSE IF urljoinRaises(anchor.href) THEN HrefError(st)
    ELSE IF ~SameDomain(anchor.href) THEN st
    ELSE StoreLink(st, HrefUrl[anchor.href], context)

\* one loop over anchors, left at the first error
RECURSIVE ReadAnchors(_, _, _)
ReadAnchors(st, elements, context) ==
    IF elements = <<>> \/ st.error # "none" THEN st
    ELSE ReadAnchors(ReadAnchor(st, Head(elements), context), Tail(elements), context)

\* the pages: up to MaxAnchors anchors in document order
AnchorLists == BoundedSeqs(Anchors, MaxAnchors)

InitLinks ==
    /\ page_url \in PageUrls
    /\ anchors \in AnchorLists
    /\ page_links = <<>>
    /\ link_error = "none"
    /\ pcL = "fetch"
    /\ CrawlIdle
    /\ PipeIdle
    /\ FetchIdle
    /\ UrlIdle
    /\ SitemapIdle
    /\ JobIdle
    /\ BatchIdle
    /\ LabelIdle

\* lines 234-237: requests.get and raise_for_status, then the parse
FetchPage ==
    /\ pcL = "fetch"
    /\ \E ok \in BOOLEAN :
         IF ok THEN /\ pcL' = "nav"
                    /\ UNCHANGED link_error
         ELSE /\ link_error' = "fetch"
              /\ pcL' = "returned"
    /\ UNCHANGED <<page_url, anchors, page_links>>
    /\ UNCHANGED <<crawlVars, pipeVars, fetchVars, urlVars, sitemapVars, jobVars,
                   batchVars, labelVars>>

\* the anchors a loop runs over, the context it writes and the loop after it
PassElements(pass) ==
    IF pass = "nav" THEN SelectSeq(anchors, LAMBDA a : a.in_nav)
    ELSE IF pass = "footer" THEN SelectSeq(anchors, LAMBDA a : a.in_footer)
    ELSE anchors
PassContext(pass) ==
    IF pass \in {"nav", "footer"} THEN pass
    ELSE IF page_url = LinksBaseUrl THEN "homepage" ELSE "body"
PassAfter(pass) ==
    IF pass = "nav" THEN "footer" ELSE IF pass = "footer" THEN "body" ELSE "returned"

\* the end of a loop: on to the next one, or out through the except clause
EndPass(st, next) ==
    /\ page_links' = st.links
    /\ link_error' = st.error
    /\ pcL' = IF st.error = "none" THEN next ELSE "returned"

\* one of the three loops: nav/header anchors (lines 241-250), footer
\* anchors (252-262), all anchors (264-276)
ReadPass ==
    /\ pcL \in {"nav", "footer", "body"}
    /\ EndPass(ReadAnchors([links |-> page_links, error |-> "none"],
                           PassElements(pcL), PassContext(pcL)),
               PassAfter(pcL))
    /\ UNCHANGED <<page_url, anchors>>
    /\ UNCHANGED <<crawlVars, pipeVars, fetchVars, urlVars, sitemapVars, jobVars,
                   batchVars, labelVars>>

NextLinks == FetchPage \/ ReadPass

SpecLinks == InitLinks /\ [][NextLinks]_vars

\* ------------------------------------------------------------ parse_sitemap
\* self.base_url as the text after "https://host": nothing, or a slash
SitemapBases == {<<>>, <<"/">>}

\* the list sitemap_urls, lines 158-163: two candidates under base_url, two
\* under "https://" + domain
sitemap_candidates(base) ==
    <<base \o <<"/sitemap.xml">>, base \o <<"/sitemap_index.xml">>,
      <<"/sitemap.xml">>, <<"/sitemap_index.xml">>>>

\* the text of a loc element: a page (with a trailing slash), a page the skip
\* filter rejects, and "[", on which urlparse raises ValueError
Locs == {<<"/", "a", "/">>, <<"/", "x">>, <<"[">>}
LocRaises(loc) == loc[1] = "["

\* the url/loc entries of a sitemap document, in order
Docs == BoundedSeqs(Locs, MaxLocs)

\* the text of the i-th sitemap/loc entry of an index
ChildUrl(i) == <<"/child.xml">> \o [k \in 1..i |-> "+"]

\* sitemaps[:5], line 184
ChildLimit == 5
ChildrenToFetchAll(n) == n
ChildrenToFetch(n) == Min(n, ChildLimit)

\* the loop over url/loc entries, lines 188-192 and 200-204: each entry goes
\* through clean_url and should_skip_url; an entry that raises ends the loop
\* and leaves what was appended before it
RECURSIVE ReadLocs(_, _)
ReadLocs(found, locs) ==
    IF locs = <<>> THEN [found |-> found, raised |-> FALSE]
    ELSE IF LocRaises(Head(locs)) THEN [found |-> found, raised |-> TRUE]
    ELSE LET url == clean_url(Head(locs))
         IN  ReadLocs(IF should_skip_url(url) THEN found ELSE Append(found, url),
                      Tail(locs))

InitSitemap ==
    /\ sm_base_url \in SitemapBases
    /\ candidate = 1
    /\ sitemaps = 0
    /\ child = 0
    /\ found_urls = <<>>
    /\ requested = <<>>
    /\ answers = <<>>
    /\ pcS = "candidates"
    /\ CrawlIdle
    /\ PipeIdle
    /\ FetchIdle
    /\ UrlIdle
    /\ LinkIdle
    /\ JobIdle
    /\ BatchIdle
    /\ LabelIdle

\* "continue", or the end of the for loop after the last candidate
NextCandidate ==
    /\ candidate' = candidate + 1
    /\ pcS' = IF candidate < Len(sitemap_candidates(sm_base_url)) THEN "candidates"
              ELSE "returned"

\* one iteration of the for loop over sitemap_urls, lines 167-209, up to the
\* loop over the children of an index
TryCandidate ==
    /\ pcS = "candidates"
    /\ requested' = Append(requested, sitemap_candidates(sm_base_url)[candidate])
    /\ \/ \* requests.get raises; the status is not 200; ET.fromstring raises
          /\ \E answer \in {"unreachable", "not_200", "unparsable"} :
               answers' = Append(answers, answer)
          /\ NextCandidate
          /\ UNCHANGED <<found_urls, sitemaps, child>>
       \/ \* a regular sitemap
          /\ \E doc \in Docs :
               LET read == ReadLocs(found_urls, doc)
               IN  /\ found_urls' = read.found
                   /\ IF read.raised
                      THEN /\ answers' = Append(answers, "bad_loc")
                           /\ NextCandidate
                      ELSE /\ answers' = Append(answers, "urlset")
                           /\ pcS' = "returned"
                           /\ UNCHANGED candidate
          /\ UNCHANGED <<sitemaps, child>>
       \/ \* a sitemap index
          /\ \E n \in 1..MaxIndexSize : sitemaps' = n
          /\ answers' = Append(answers, "index")
          /\ child' = 1
          /\ pcS' = "children"
          /\ UNCHANGED <<found_urls, candidate>>
    /\ UNCHANGED sm_base_url
    /\ UNCHANGED <<crawlVars, pipeVars, fetchVars, urlVars, linkVars, jobVars, batchVars,
                   labelVars>>

\* one iteration of the loop over sitemaps[:5], lines 184-194, and the break
\* of line 206 after the last one
FetchChild ==
    /\ pcS = "children"
    /\ requested' = Append(requested, ChildUrl(child))
    /\ \/ \* the request or the parse raises
          UNCHANGED found_urls
       \/ \E doc \in Docs : found_urls' = ReadLocs(found_urls, doc).found
    /\ child' = child + 1
    /\ pcS' = IF child < ChildrenToFetch(sitemaps) THEN "children" ELSE "returned"
    /\ UNCHANGED <<sm_base_url, candidate, sitemaps, answers>>
    /\ UNCHANGED <<crawlVars, pipeVars, fetchVars, urlVars, linkVars, jobVars, batchVars,
                   labelVars>>

NextSitemap == TryCandidate \/ FetchChild

SpecSitemap == InitSitemap /\ [][NextSitemap]_vars

\* ------------------------------------------------------- the job registry
\* app.py: start_single_pipeline, start_batch_pipeline, the first and the last
\* lines of run_pipeline_async, and cancel_job, each in its own thread.  A job
\* id is the pair of the second on the clock and the batch index.
NoIndex == 0 - 1

\* f"job_{datetime.now().strftime('%Y%m%d_%H%M%S')}", line 338
single_job_id(second) == <<second, NoIndex>>
\* f"job_{datetime.now().strftime('%Y%m%d_%H%M%S')}_{len(job_ids)}", line 366
batch_job_id(second, index) == <<second, index>>

\* dict[key] = value and del dict[key]
Store(dict, key, value) ==
    [k \in DOMAIN dict \cup {key} |-> IF k = key THEN value ELSE dict[k]]
Delete(dict, key) == [k \in DOMAIN dict \ {key} |-> dict[k]]

NewThread(id) == [job_id |-> id, pc |-> "created"]

\* the seconds read by the iterations of the loop of start_batch_pipeline
BatchSeconds(n) ==
    {secs \in [1..n -> now..MaxClock] :
        /\ secs[1] = now
        /\ \A k \in 1..(n - 1) : secs[k] <= secs[k + 1]}

InitJobs ==
    /\ now = 0
    /\ threads = <<>>
    /\ active_jobs = [j \in {} |-> 0]
    /\ cancels = <<>>
    /\ PipeIdle
    /\ CrawlIdle
    /\ FetchIdle
    /\ UrlIdle
    /\ LinkIdle
    /\ SitemapIdle
    /\ BatchIdle
    /\ LabelIdle

idlePipeVars == <<job_id, num_useful, file_queue, producerVars, consumerVars, cancel_at>>

\* a second goes by on the clock
Tick ==
    /\ now < MaxClock
    /\ now' = now + 1
    /\ UNCHANGED <<threads, active_jobs, cancels, job_cancellation, idlePipeVars>>
    /\ UNCHANGED <<crawlVars, fetchVars, urlVars, linkVars, sitemapVars, batchVars, labelVars>>

\* POST /api/start-single, lines 328-351
start_single_pipeline ==
    /\ Len(threads) < MaxJobs
    /\ threads' = Append(threads, NewThread(single_job_id(now)))
    /\ UNCHANGED <<now, active_jobs, cancels, job_cancellation, idlePipeVars>>
    /\ UNCHANGED <<crawlVars, fetchVars, urlVars, linkVars, sitemapVars, batchVars, labelVars>>

\* POST /api/start-batch, lines 354-381, with n urls
start_batch_pipeline ==
    /\ \E n \in 1..MaxBatch :
         /\ Len(threads) + n <= MaxJobs
         /\ \E secs \in BatchSeconds(n) :
              /\ threads' = threads \o
                     [k \in 1..n |-> NewThread(batch_job_id(secs[k], k - 1))]
              /\ now' = secs[n]
    /\ UNCHANGED <<active_jobs, cancels, job_cancellation, idlePipeVars>>
    /\ UNCHANGED <<crawlVars, fetchVars, urlVars, linkVars, sitemapVars, batchVars, labelVars>>

\* run_pipeline_async, lines 84-86: the tracker and the flag are registered
JobBegin ==
    /\ \E t \in 1..Len(threads) :
         /\ threads[t].pc = "created"
         /\ active_jobs' = Store(active_jobs, threads[t].job_id, t)
         /\ job_cancellation' = Store(job_cancellation, threads[t].job_id, FALSE)
         /\ threads' = [threads EXCEPT ![t].pc = "running"]
    /\ UNCHANGED <<now, cancels, idlePipeVars>>
    /\ UNCHANGED <<crawlVars, fetchVars, urlVars, linkVars, sitemapVars, batchVars, labelVars>>

\* run_pipeline_async, lines 204-207: the job is over (completed, failed or
\* cancelled), the finally clause deletes the flag if it is there
JobEnd ==
    /\ \E t \in 1..Len(threads) :
         /\ threads[t].pc = "running"
         /\ job_cancellation' =
                IF threads[t].job_id \in DOMAIN job_cancellation
                THEN Delete(job_cancellation, threads[t].job_id)
                ELSE job_cancellation
         /\ threads' = [threads EXCEPT ![t].pc = "finished"]
    /\ UNCHANGED <<now, active_jobs, cancels, idlePipeVars>>
    /\ UNCHANGED <<crawlVars, fetchVars, urlVars, linkVars, sitemapVars, batchVars, labelVars>>

\* cancel_job, line 405: "if job_id in job_cancellation", for an id that a
\* start request returned; without the flag the request is answered at once
\* (lines 409-413)
CancelJobTest ==
    /\ Len(cancels) < MaxCancels
    /\ \E t \in 1..Len(threads) :
         cancels' = Append(cancels,
                           [job_id |-> threads[t].job_id,
                            pc |-> IF threads[t].job_id \in DOMAIN job_cancellation
                                   THEN "set" ELSE "answered"])
    /\ UNCHANGED <<now, threads, active_jobs, job_cancellation, idlePipeVars>>
    /\ UNCHANGED <<crawlVars, fetchVars, urlVars, linkVars, sitemapVars, batchVars, labelVars>>

\* cancel_job, lines 406-407: "job_cancellation[job_id] = True"
CancelJobSet ==
    /\ \E r \in 1..Len(cancels) :
         /\ cancels[r].pc = "set"
         /\ job_cancellation' = Store(job_cancellation, cancels[r].job_id, TRUE)
         /\ cancels' = [cancels EXCEPT ![r].pc = "answered"]
    /\ UNCHANGED <<now, threads, active_jobs, idlePipeVars>>
    /\ UNCHANGED <<crawlVars, fetchVars, urlVars, linkVars, sitemapVars, batchVars, labelVars>>

NextJobs ==
    \/ Tick \/ start_single_pipeline \/ start_batch_pipeline
    \/ JobBegin \/ JobEnd \/ CancelJobTest \/ CancelJobSet

SpecJobs == InitJobs /\ [][NextJobs]_vars

\* ------------------------------------------------------------ crawl_from_csv
\* smart_crawler.py, lines 428-503.  A base URL is one of three texts that
\* pass the test of line 441; urlparse raises ValueError on the last one.
BatchUrls == {"https://a", "https://b", "https://["}
urlparseRaises(url) == url = "https://["

\* generate_filename, lines 390-395: raises when urlparse does
generate_filenameRaises(url) == urlparseRaises(url)

\* a submitted call: waiting, running, done (with its record) or collected
Future(state, record) == [state |-> state, result |-> record]
Queued(fs) == {i \in 1..Len(fs) : fs[i].state = "queued"}
Running(fs) == {i \in 1..Len(fs) : fs[i].state = "running"}

\* the result of crawl_single_site, lines 411-425
SiteResult(i, url, count, ok) == [job |-> i, url |-> url, count |-> count, success |-> ok]

InitBatch ==
    /\ base_urls \in BoundedSeqs(BatchUrls, MaxSites)
    /\ max_workers \in 1..MaxWorkers
    /\ futures = <<>>
    /\ crawlers = <<>>
    /\ results = <<>>
    /\ pcB = "listing"
    /\ CrawlIdle
    /\ PipeIdle
    /\ FetchIdle
    /\ UrlIdle
    /\ LinkIdle
    /\ SitemapIdle
    /\ JobIdle
    /\ LabelIdle

\* lines 447-465: without urls the function returns; the listing calls
\* generate_filename on every url; then every url is submitted to the pool
ListAndSubmit ==
    /\ pcB = "listing"
    /\ IF base_urls = <<>>
       THEN pcB' = "returned" /\ UNCHANGED <<futures, crawlers>>
       ELSE IF \E i \in 1..Len(base_urls) : generate_filenameRaises(base_urls[i])
       THEN pcB' = "raised" /\ UNCHANGED <<futures, crawlers>>
       ELSE /\ pcB' = "pool"
            /\ futures' = [i \in 1..Len(base_urls) |-> Future("queued", NoResult)]
            /\ crawlers' = [i \in 1..Len(base_urls) |-> {}]
    /\ UNCHANGED <<base_urls, max_workers, results>>
    /\ UNCHANGED <<crawlVars, pipeVars, fetchVars, urlVars, linkVars, sitemapVars, jobVars,
                   labelVars>>

\* a free worker of ThreadPoolExecutor(max_workers) takes the oldest waiting
\* call; crawl_single_site builds its own SmartCrawler, line 408
WorkerTake ==
    /\ pcB = "pool"
    /\ Queued(futures) # {}
    /\ Cardinality(Running(futures)) < max_workers
    /\ LET i == CHOOSE q \in Queued(futures) : \A r \in Queued(futures) : q <= r
       IN  /\ futures' = [futures EXCEPT ![i].state = "running"]
           /\ crawlers' = [crawlers EXCEPT ![i] = {}]
    /\ UNCHANGED <<base_urls, max_workers, results, pcB>>
    /\ UNCHANGED <<crawlVars, pipeVars, fetchVars, urlVars, linkVars, sitemapVars, jobVars,
                   labelVars>>

\* crawler.crawl(), line 409: the crawler of one site discovers a url
SiteDiscovers ==
    /\ pcB = "pool"
    /\ \E i \in Running(futures) :
         /\ Cardinality(crawlers[i]) < MaxFound
         /\ crawlers' = [crawlers EXCEPT ![i] = @ \cup {Cardinality(@) + 1}]
    /\ UNCHANGED <<base_urls, max_workers, futures, results, pcB>>
    /\ UNCHANGED <<crawlVars, pipeVars, fetchVars, urlVars, linkVars, sitemapVars, jobVars,
                   labelVars>>

\* lines 409-425: the crawl is over or raised; the call returns its record
SiteDone ==
    /\ pcB = "pool"
    /\ \E i \in Running(futures) : \E ok \in BOOLEAN :
         futures' = [futures EXCEPT
                        ![i] = Future("done",
                                      SiteResult(i, base_urls[i],
                                                 IF ok THEN Cardinality(crawlers[i]) ELSE 0,
                                                 ok))]
    /\ UNCHANGED <<base_urls, max_workers, crawlers, results, pcB>>
    /\ UNCHANGED <<crawlVars, pipeVars, fetchVars, urlVars, linkVars, sitemapVars, jobVars,
                   labelVars>>

Completed(fs) == {i \in 1..Len(fs) : fs[i].state = "done"}

\* one iteration of "for future in as_completed(future_to_url)", 467-479
Collect ==
    /\ pcB = "pool"
    /\ \E i \in Completed(futures) :
         /\ results' = Append(results, futures[i].result)
         /\ futures' = [futures EXCEPT ![i].state = "collected"]
    /\ UNCHANGED <<base_urls, max_workers, crawlers, pcB>>
    /\ UNCHANGED <<crawlVars, pipeVars, fetchVars, urlVars, linkVars, sitemapVars, jobVars,
                   labelVars>>

\* every future was yielded: the summary is printed, lines 481-503
Summary ==
    /\ pcB = "pool"
    /\ \A i \in 1..Len(futures) : futures[i].state = "collected"
    /\ pcB' = "returned"
    /\ UNCHANGED <<base_urls, max_workers, futures, crawlers, results>>
    /\ UNCHANGED <<crawlVars, pipeVars, fetchVars, urlVars, linkVars, sitemapVars, jobVars,
                   labelVars>>

NextBatch == ListAndSubmit \/ WorkerTake \/ SiteDiscovers \/ SiteDone \/ Collect \/ Summary

SpecBatch == InitBatch /\ [][NextBatch]_vars

\* ---------------------------------------------------- label_urls_with_openai
\* label_urls.py, lines 19-135.  A row is its isUseful cell: empty, blank,
\* 'True', 'False', or None for a row shorter than the header (csv.DictReader
\* fills the missing fields with None).
NoneCell == "<None>"
LabelCells == {"", " ", "True", "False", NoneCell}

\* str.strip on the texts of the model
strip(text) == IF text = " " THEN "" ELSE IF text = " True" THEN "True" ELSE text

\* what client.chat.completions.create can come to: the text of the reply, or
\* an exception
ApiRaises == "<raises>"
ApiAnswers == {"True", "False", " True", "true", ApiRaises}

\* csv.DictWriter.writerows, lines 106-109: None is written as an empty cell
WriteRows(rs) == [i \in 1..Len(rs) |-> IF rs[i] = NoneCell THEN "" ELSE rs[i]]

\* lines 92-100 and 114-118: the label a reply gives the row
DefaultLabel == "True"
LabelFor(answer) ==
    IF answer = ApiRaises THEN DefaultLabel
    ELSE IF strip(answer) \in {"True", "False"} THEN strip(answer)
    ELSE DefaultLabel

InitLabel ==
    /\ input_rows \in BoundedSeqs(LabelCells, MaxRows)
    /\ csv_rows = input_rows
    /\ output_csv = input_rows
    /\ row_idx = 1
    /\ replies = <<>>
    /\ pcW = "loop"
    /\ CrawlIdle
    /\ PipeIdle
    /\ FetchIdle
    /\ UrlIdle
    /\ LinkIdle
    /\ SitemapIdle
    /\ JobIdle
    /\ BatchIdle

\* one iteration of the loop over the rows, lines 64-123; an exception raised
\* outside the inner try leaves the function through the finally clause
LabelRow ==
    /\ pcW = "loop"
    /\ row_idx <= Len(csv_rows)
    /\ LET cell == csv_rows[row_idx]
       IN  IF cell = NoneCell
           THEN /\ pcW' = "raised"
                /\ output_csv' = WriteRows(csv_rows)
                /\ UNCHANGED <<csv_rows, row_idx, replies>>
           ELSE IF strip(cell) # ""
           THEN /\ row_idx' = row_idx + 1
                /\ UNCHANGED <<csv_rows, output_csv, replies, pcW>>
           ELSE \E answer \in ApiAnswers :
                  /\ csv_rows' = [csv_rows EXCEPT ![row_idx] = LabelFor(answer)]
                  /\ output_csv' = WriteRows(csv_rows')
                  /\ replies' = Append(replies, <<row_idx, answer>>)
                  /\ row_idx' = row_idx + 1
                  /\ UNCHANGED pcW
    /\ UNCHANGED input_rows
    /\ UNCHANGED <<crawlVars, pipeVars, fetchVars, urlVars, linkVars, sitemapVars, jobVars,
                   batchVars>>

\* the rows are exhausted: the final save, lines 130-135
LabelEnd ==
    /\ pcW = "loop"
    /\ row_idx > Len(csv_rows)
    /\ output_csv' = WriteRows(csv_rows)
    /\ pcW' = "returned"
    /\ UNCHANGED <<input_rows, csv_rows, row_idx, replies>>
    /\ UNCHANGED <<crawlVars, pipeVars, fetchVars, urlVars, linkVars, sitemapVars, jobVars,
                   batchVars>>

\* KeyboardInterrupt, lines 125-135
LabelInterrupt ==
    /\ pcW = "loop"
    /\ output_csv' = WriteRows(csv_rows)
    /\ pcW' = "interrupted"
    /\ UNCHANGED <<input_rows, csv_rows, row_idx, replies>>
    /\ UNCHANGED <<crawlVars, pipeVars, fetchVars, urlVars, linkVars, sitemapVars, jobVars,
                   batchVars>>

NextLabel == LabelRow \/ LabelEnd \/ LabelInterrupt

SpecLabel == InitLabel /\ [][NextLabel]_vars

\* ------------------------------------------------------------------ claims
FrontierUrls == {to_crawl[i][1] : i \in 1..Len(to_crawl)}

\* C1: at every point of a discovery run the discovered set holds at most
\* max_urls URLs.
C1_BudgetNeverExceeded == Cardinality(DOMAIN discovered_urls) <= max_urls

\* C6: every entry put on the frontier has the depth of the page it was found
\* on plus 1 (the seed has depth 0), and no frontier entry is deeper than
\* max_depth.
C6_FrontierDepth ==
    [][/\ \A i \in 1..Len(to_crawl') : to_crawl'[i][2] <= max_depth
       /\ (pcD = "constructed" /\ pcD' = "sitemap") => to_crawl' = <<<<base_url, 0>>>>
       /\ (pcD = "bfs" /\ pcD' = "bfs") =>
              \A i \in Len(to_crawl)..Len(to_crawl') :
                  to_crawl'[i][2] = Head(to_crawl)[2] + 1]_vars

\* a child was found one level below the depth limit: recorded, not enqueued
C6_Witness ==
    \E u \in DOMAIN url_depths : url_depths[u] = max_depth + 1

\* C7: link extraction happens at most once per URL in a discovery run.
C7_ExtractOncePerUrl ==
    \A i, j \in 1..Len(crawl_log) : crawl_log[i][1] = crawl_log[j][1] => i = j

\* a later page linked back to a page that had already been crawled
C7_Witness == relinked /\ Len(crawl_log) >= 3

\* C8 as stated: after initialisation the frontier holds the base URL at depth
\* 0 and every sitemap-derived seed at depth 1.
C8_SitemapSeedsOnFrontier ==
    (pcD = "bfs" /\ crawl_log = <<>>) =>
        /\ Head(to_crawl) = <<base_url, 0>>
        /\ \A i \in 1..Len(sitemap_urls) :
               sitemap_urls[i] # base_url =>
                   \E k \in 1..Len(to_crawl) : to_crawl[k] = <<sitemap_urls[i], 1>>

\* C8 amended: after initialisation the frontier holds only the base URL at
\* depth 0; every sitemap-derived URL is in the discovered set, and one other
\* than the base URL has recorded depth 1, is never on the frontier and is
\* never link-extracted.
C8_SitemapSeedsNeverCrawled ==
    pcD \in {"bfs", "done"} =>
        /\ crawl_log = <<>> => to_crawl = <<<<base_url, 0>>>>
        /\ \A i \in 1..Len(sitemap_urls) :
               LET u == sitemap_urls[i]
               IN  /\ u \in DOMAIN discovered_urls
                   /\ u # base_url =>
                         /\ url_depths[u] = 1
                         /\ u \notin FrontierUrls
                         /\ u \notin crawled

\* the walk ended after crawling several pages with a sitemap seed recorded
C8_Witness ==
    /\ pcD = "done"
    /\ Len(crawl_log) >= 2
    /\ \E i \in 1..Len(sitemap_urls) : sitemap_urls[i] # base_url

\* the artifacts among the items put on the queue, in enqueue order
RealItems(items) == SelectSeq(items, LAMBDA f : f # None)

\* the snapshot that folding the given units yields
FoldOf(units) == SelectSeq(units, LAMBDA f : f \notin ai_failed)

PipelineStopped == pcC = "exited" /\ pcP \in {"returned", "raised", "finished"}

\* what is on disk: the output record, else the progress record, else nothing
PersistedSnapshot ==
    IF output_file.written THEN output_file.data ELSE progress_file.data

\* C2: when cancellation is signalled after unit k and before unit k+1, then
\* once the pipeline has stopped the persisted snapshot reflects exactly units
\* 1..k, no later unit was processed and the queue is empty.
C2_CancelKeepsExactlyK ==
    (/\ PipelineStopped
     /\ cancel_at # NotCancelled
     /\ cancel_at < Len(RealItems(enqueued))) =>
        /\ Len(processed) = cancel_at
        /\ PersistedSnapshot = FoldOf(SubSeq(RealItems(enqueued), 1, cancel_at))
        /\ file_queue = <<>>

\* C3: on every path by which the producer finishes it has put exactly one
\* sentinel on the queue, and nothing is enqueued after that sentinel.
C3_OneSentinelLast ==
    /\ \A i \in 1..Len(enqueued) : enqueued[i] = None => i = Len(enqueued)
    /\ producer_exit \in {"no_urls", "exhausted", "cancelled"} =>
           /\ Len(enqueued) >= 1
           /\ enqueued[Len(enqueued)] = None
           /\ Cardinality({i \in 1..Len(enqueued) : enqueued[i] = None}) = 1

\* the producer stopped on cancellation after it had enqueued an artifact
C3_Witness == producer_exit = "cancelled" /\ Len(enqueued) >= 2

\* C4: in a job started from the dashboard, once the flag is set the producer
\* starts no further fetch and the consumer does not go on to block on the
\* queue.
C4_CancelStopsDashboardJob ==
    [][(/\ job_id = NoJobId
        /\ JobId \in DOMAIN job_cancellation
        /\ job_cancellation[JobId]) =>
            /\ fetch_started' = fetch_started
            /\ ~(pcC = "check" /\ pcC' = "get")]_vars

\* C5: the artifacts passed to the extraction operation are a prefix of the
\* artifacts enqueued, in the same order.
C5_FifoPrefix ==
    LET real == RealItems(enqueued)
    IN  /\ Len(processed) <= Len(real)
        /\ \A i \in 1..Len(processed) : processed[i] = real[i]
        /\ pcC = "process" =>
               /\ Len(processed) < Len(real)
               /\ filepath = real[Len(processed) + 1]

\* every artifact of a full run went through the extraction operation
C5_Witness == Len(processed) >= MaxUseful

\* C10 as stated: a consumer that exits on cancellation has written the
\* current snapshot to the output record, with zero units processed too.
C10_CancelAlwaysSaves ==
    consumer_exit = "cancelled" => output_file = Written(accumulated_data)

\* C10 amended: a consumer that exits on cancellation has processed none of
\* the items it drained; with at least one unit processed the output record
\* holds the current snapshot, with none the output record is not written.
C10_CancelSavesWhenProcessed ==
    consumer_exit = "cancelled" =>
        /\ Len(processed) = file_count
        /\ \A i \in 1..Len(drained) : \A j \in 1..Len(processed) : drained[i] # processed[j]
        /\ file_count > 0 => output_file = Written(accumulated_data)
        /\ file_count = 0 => output_file = Unwritten

\* the consumer left on cancellation before any unit, dropping an artifact
C10_Witness ==
    /\ consumer_exit = "cancelled"
    /\ file_count = 0
    /\ \E i \in 1..Len(drained) : drained[i] # None

\* C9: when every attempt of a fetch fails with a timeout or a request error,
\* the fetcher makes exactly max_retries attempts and then returns a failure
\* result that carries the error and attempts = max_retries.
C9_ExhaustedRetriesFail ==
    (/\ pcF = "returned"
     /\ Len(outcomes) >= 1
     /\ \A i \in 1..Len(outcomes) : outcomes[i] \in Transient) =>
        /\ Len(outcomes) = max_retries
        /\ result.kind = "result"
        /\ result = ResultRecord(FALSE, outcomes[Len(outcomes)], max_retries)

\* three or more attempts were made and each of them failed transiently
C9_Witness ==
    /\ pcF = "returned"
    /\ Len(outcomes) >= 3
    /\ \A i \in 1..Len(outcomes) : outcomes[i] \in Transient

\* the fold of the extraction operation over the units, from a snapshot on
RECURSIVE SequentialFold(_, _)
SequentialFold(snapshot, units) ==
    IF units = <<>> THEN snapshot
    ELSE SequentialFold(extract_value_from_file(Head(units), snapshot,
                                                Head(units) \notin ai_failed),
                        Tail(units))

\* C11: the snapshot is at every point the sequential fold of the extraction
\* operation over the units processed so far, from the empty structure; at
\* most one extraction call is in progress; and a consumer that ended on the
\* sentinel has processed every enqueued artifact in enqueue order and has
\* written that fold to the output record.
C11_SentinelFold ==
    /\ file_count - Len(processed) = (IF pcC = "process" THEN 1 ELSE 0)
    /\ accumulated_data = SequentialFold(<<>>, processed)
    /\ consumer_exit = "sentinel" =>
           /\ processed = RealItems(enqueued)
           /\ output_file = Written(SequentialFold(<<>>, RealItems(enqueued)))

\* a full run over several artifacts ended on the sentinel
C11_Witness ==
    /\ consumer_exit = "sentinel"
    /\ Len(processed) = MaxUseful
    /\ Len(accumulated_data) >= 2

\* C12: when the extraction call fails for a unit, the snapshot after the unit
\* is the snapshot before it, and the consumer returns to the top of its loop
\* for the next unit.
C12_FailureKeepsSnapshot ==
    [][(pcC = "process" /\ ai_failed' # ai_failed) =>
           /\ accumulated_data' = accumulated_data
           /\ progress_file' = Written(accumulated_data)
           /\ pcC' = "check"]_vars

\* a unit failed after one had succeeded, and a later unit was then folded in
C12_Witness ==
    /\ Len(processed) >= 3
    /\ processed[2] \in ai_failed
    /\ accumulated_data = <<processed[1], processed[3]>>

\* C13: once a URL is in the discovered set, no step of the discovery run
\* removes it or changes its priority or its depth.
C13_FirstWriteWins ==
    [][\A u \in DOMAIN discovered_urls :
           /\ u \in DOMAIN discovered_urls'
           /\ u \in DOMAIN url_depths'
           /\ discovered_urls'[u] = discovered_urls[u]
           /\ url_depths'[u] = url_depths[u]]_vars

\* the walk ran to an empty frontier within budget, so every link of every
\* page was examined, and one of them led back to a page crawled earlier
C13_Witness ==
    /\ pcD = "done"
    /\ relinked
    /\ ~BudgetReached(discovered_urls)
    /\ Len(crawl_log) >= 2

\* C14: the breadth-first walk terminates, and when it has terminated the
\* frontier is empty or the discovered set has reached max_urls.
C14_WalkTerminates ==
    <>(/\ pcD \in {"done", "saved"}
       /\ (to_crawl = <<>> \/ Cardinality(DOMAIN discovered_urls) >= max_urls))

\* the walk ended on the budget with pages still waiting on the frontier
C14_Witness ==
    /\ pcD = "done"
    /\ to_crawl # <<>>
    /\ Len(crawl_log) >= 2

\* C15: every step of the walk takes the head of the frontier, crawls it, and
\* puts what it enqueues behind the entries already waiting; the depths of
\* the pages crawled never decrease.
C15_StrictBfs ==
    [][(pcD = "bfs" /\ pcD' = "bfs") =>
           /\ Len(to_crawl') >= Len(to_crawl) - 1
           /\ SubSeq(to_crawl', 1, Len(to_crawl) - 1) = Tail(to_crawl)
           /\ crawl_log' # crawl_log => crawl_log' = Append(crawl_log, Head(to_crawl))
           /\ \A i, j \in 1..Len(crawl_log') :
                  i < j => crawl_log'[i][2] <= crawl_log'[j][2]]_vars

\* a page was crawled before a page of higher priority, and the walk went on
\* to a deeper level
C15_Witness ==
    /\ \E i, j \in 1..Len(crawl_log) :
           /\ i < j
           /\ discovered_urls[crawl_log[i][1]] < discovered_urls[crawl_log[j][1]]
    /\ \E i \in 1..Len(crawl_log) : crawl_log[i][2] >= 2

\* C16: clean_url applied to its own result returns that result.
C16_CleanUrlIdempotent == pcU = "recleaned" => recleaned = cleaned

\* C17: every key of the discovered set is a fixed point of clean_url, and no
\* two keys have the same canonical URL.
C17_KeysCanonical ==
    /\ \A u \in DOMAIN discovered_urls : clean_url(UrlText(u)) = UrlText(u)
    /\ \A u, v \in DOMAIN discovered_urls :
           clean_url(UrlText(u)) = clean_url(UrlText(v)) => u = v

\* C18: no URL in the discovered set or on the frontier matches a skip
\* pattern.
C18_NoSkippedUrl ==
    \A u \in DOMAIN discovered_urls \cup FrontierUrls : ~should_skip_url(UrlText(u))

\* C19: calculate_priority returns an integer from 0 to 100, and 100 when the
\* path of the URL is "/" or empty, whatever the context, depth and query.
C19_PriorityRange ==
    pcU = "scored" =>
        /\ priority_out \in 0..100
        /\ urlparse(url_in).path \in {<<"/">>, <<>>} => priority_out = 100

\* a deep URL with a query, found far from the homepage, scored 0
C19_Witness ==
    /\ pcU = "scored"
    /\ priority_out = 0
    /\ NumSegments(urlparse(url_in).path) >= 5
    /\ depth_in = MaxCrawlDepth
    /\ context_in = "body"

\* the bonuses as the claim lists them
ClaimedContextBonus ==
    IF context_in = "nav" THEN 30
    ELSE IF context_in = "footer" THEN 20
    ELSE IF context_in = "homepage" THEN 25
    ELSE 0
ClaimedSegmentBonus ==
    LET n == NumSegments(urlparse(url_in).path)
    IN  IF n = 1 THEN 20
        ELSE IF n = 2 THEN 10
        ELSE IF n = 3 THEN 0
        ELSE IF n = 4 THEN 0 - 10
        ELSE 0 - 20
ClaimedScore ==
    50 + ClaimedContextBonus + ClaimedSegmentBonus - 5 * depth_in
       - (IF parse_qs(urlparse(url_in).query) # <<>> THEN 5 ELSE 0)

C21_TopRowsByPriority ==
    pcD = "saved" =>
        /\ Len(rows) = Min(max_urls, Cardinality(DOMAIN discovered_urls))
        /\ \A i \in 1..Len(rows) :
             /\ rows[i][1] \in DOMAIN discovered_urls
             /\ rows[i][3] = discovered_urls[rows[i][1]]
        /\ \A i, j \in 1..Len(rows) :
             /\ i < j => rows[i][3] >= rows[j][3]
             /\ i # j => rows[i][1] # rows[j][1]
        /\ \A url \in DOMAIN discovered_urls :
             (\A i \in 1..Len(rows) : rows[i][1] # url) =>
                 \A i \in 1..Len(rows) : discovered_urls[url] <= rows[i][3]

\* rows of different priorities were written, not in the order of discovery,
\* and a discovered URL was left out
C21_Witness ==
    /\ pcD = "saved"
    /\ Len(rows) >= 2
    /\ rows[1][3] > rows[Len(rows)][3]
    /\ Cardinality(DOMAIN discovered_urls) > Len(rows)
    /\ \E i \in 1..Len(rows) : rows[i][1] # discovered_order[i]

\* ---------------------------------------------------------------- C22
\* the walk as it goes with max_depth = 1: no page below depth 1 was fetched
\* (a page at depth 1 is fetched, line 319 skips only depth > max_depth)
HomepageLevelWalk == \A i \in 1..Len(crawl_log) : crawl_log[i][2] <= 1

\* a link found on the homepage has depth 1 in url_depths: line 333 records
\* current_depth + 1 for it, unless the sitemap recorded depth 1 before
AtHomepageLevel(url) == url_depths[url] = 1

C23_NoTrailingSlash ==
    pcU = "cleaned" =>
        LET path_in  == urlparse(url_in).path
            qmark    == IndexFrom(cleaned, "?", 1)
            path_out == IF qmark = 0 THEN cleaned ELSE SubSeq(cleaned, 1, qmark - 1)
        IN  /\ path_in = <<"/">> => path_out = <<"/">>
            /\ path_in \notin {<<>>, <<"/">>} =>
                   (path_out = <<>> \/ path_out[Len(path_out)] # "/")

\* ---------------------------------------------------------------- C24
\* the parameters of a query string, in order
PairsOf(query) == SelectSeq(query, LAMBDA tok : tok \in PairTokens)

\* the inputs that carry the parameters of url in another order, on the same path
Reordered(url) ==
    LET parsed == urlparse(url)
        pairs == PairsOf(parsed.query)
        n == Len(pairs)
    IN  {parsed.path \o <<"?">> \o JoinAmp([i \in 1..n |-> pairs[f[i]]]) :
             f \in {g \in [1..n -> 1..n] : \A i, j \in 1..n : g[i] = g[j] => i = j}}

\* how often a parameter occurs in a list, as urlencode writes it
Occurrences(pairs, pair) == Cardinality({i \in 1..Len(pairs) : Encode(pairs[i]) = pair})

\* C24: clean_url drops every parameter whose key is in the tracking denylist,
\* keeps every other parameter with its values, and writes the kept parameters
\* in an order that depends only on which parameters the input carries: two
\* inputs with the same parameters on the same path get the same canonical URL.
C24_FilterAndStableOrder ==
    pcU = "cleaned" =>
        LET pairs_in  == PairsOf(urlparse(url_in).query)
            pairs_out == PairsOf(cleaned)
        IN  /\ \A i \in 1..Len(pairs_out) : Key(pairs_out[i]) \notin tracking_params
            /\ \A pair \in PairTokens :
                   Key(pair) \notin tracking_params =>
                       Occurrences(pairs_out, pair) = Occurrences(pairs_in, pair)
            /\ pairs_in # <<>> => \A other \in Reordered(url_in) : clean_url(other) = cleaned

\* ---------------------------------------------------------------- C25
\* the anchors of the page that stand for url: same host, not skipped, and
\* url is what clean_url makes of their href
AnchorsOf(url) ==
    {i \in 1..Len(anchors) :
        /\ ~IgnoredHref(anchors[i].href)
        /\ ~urljoinRaises(anchors[i].href)
        /\ SameDomain(anchors[i].href)
        /\ HrefUrl[anchors[i].href] = url
        /\ ~should_skip_url(url)}

ClaimedContext(url) ==
    IF \E i \in AnchorsOf(url) : anchors[i].in_nav THEN "nav"
    ELSE IF \E j \in AnchorsOf(url) : anchors[j].in_footer THEN "footer"
    ELSE IF page_url = LinksBaseUrl THEN "homepage"
    ELSE "body"

\* C25: within one page each extracted URL has exactly one context: "nav" if
\* one of its anchors is inside a nav or header element, otherwise "footer" if
\* one is inside a footer element, otherwise "homepage" on the seed page and
\* "body" on any other page; an entry once made is never changed by a later
\* occurrence of the URL.
C25_OneContextFirstWins ==
    [][LET after == page_links'
       IN  /\ \A i \in 1..Len(after) :
                /\ AnchorsOf(after[i][1]) # {}
                /\ after[i][2] = ClaimedContext(after[i][1])
                /\ \A j \in 1..Len(after) : after[j][1] = after[i][1] => j = i
           /\ Len(after) >= Len(page_links)
           /\ \A k \in 1..Len(page_links) : after[k] = page_links[k]]_vars

\* a URL came out as "footer" although an anchor outside every footer names
\* it earlier in the document
C25_Witness ==
    /\ pcL = "returned"
    /\ link_error = "none"
    /\ \E k \in 1..Len(page_links) :
         /\ page_links[k][2] = "footer"
         /\ \E i, j \in AnchorsOf(page_links[k][1]) :
              /\ i < j
              /\ ~anchors[i].in_footer
              /\ anchors[j].in_footer

\* ---------------------------------------------------------------- C26
\* the anchors that the loops got through before urljoin raised: the loops
\* run over the nav anchors, then the footer anchors, then all anchors, and
\* the first loop that meets a rejected href ends the call
Rejected(S) == {i \in S : urljoinRaises(anchors[i].href)}
Before(S) == {i \in S : \A j \in Rejected(S) : i < j}
ReadBeforeError ==
    LET all    == 1..Len(anchors)
        nav    == {i \in all : anchors[i].in_nav}
        footer == {i \in all : anchors[i].in_footer}
    IN  IF Rejected(nav) # {} THEN Before(nav)
        ELSE IF Rejected(footer) # {} THEN nav \cup Before(footer)
        ELSE nav \cup footer \cup Before(all)

Answered200 == {"unparsable", "bad_loc", "urlset", "index"}
ReadToEnd == {"urlset", "index"}

\* the requests made for children of an index: those after the candidates
ChildRequests == SubSeq(requested, Len(answers) + 1, Len(requested))

\* the candidates were requested in the order of the list, children only
\* after an index, no more than 5 of them and, at the return, all of the
\* first 5; a regular sitemap is read without a further request
InOrderWithChildLimit ==
    /\ SubSeq(requested, 1, Len(answers))
           = SubSeq(sitemap_candidates(sm_base_url), 1, Len(answers))
    /\ ChildRequests # <<>> => answers[Len(answers)] = "index"
    /\ Len(ChildRequests) <= 5
    /\ \A i \in 1..Len(ChildRequests) : ChildRequests[i] = ChildUrl(i)
    /\ (pcS = "returned" /\ answers[Len(answers)] = "index") =>
           Len(ChildRequests) = Min(sitemaps, 5)

\* C27 as stated: candidates are tried in order and none is tried after one
\* that answered HTTP 200; an index has at most its first 5 children fetched.
C27_StopsAtFirst200 ==
    /\ \A i \in 1..(Len(answers) - 1) : answers[i] \notin Answered200
    /\ InOrderWithChildLimit

\* C27 (amended): candidates are tried in order and none is tried after one
\* that answered HTTP 200 and was read without an error; one that answered
\* 200 but raised while it was parsed or read is passed over like a failed
\* one; an index has at most its first 5 children fetched.
C27_StopsAtFirstReadable ==
    /\ \A i \in 1..(Len(answers) - 1) : answers[i] \notin ReadToEnd
    /\ pcS = "returned" =>
           (answers[Len(answers)] \in ReadToEnd \/ Len(answers) = 4)
    /\ InOrderWithChildLimit

\* a candidate answered 200 with a document that could not be read, the next
\* one was an index of more than 5 sitemaps, and 5 children were fetched
C27_Witness ==
    /\ pcS = "returned"
    /\ Len(answers) >= 2
    /\ answers[1] \in {"unparsable", "bad_loc"}
    /\ answers[Len(answers)] = "index"
    /\ sitemaps > 5
    /\ Len(ChildRequests) = 5

\* ---------------------------------------------------------------- C28
\* C28: no sitemap URL is requested more than once; a candidate that fails
\* only moves the loop to the next one; when no candidate was read to its end
\* the loader returns an empty list (it always returns: no exception leaves
\* parse_sitemap).
C28_OneRequestPerUrlNoSeedsOnFailure ==
    /\ \A i, j \in 1..Len(requested) : requested[i] = requested[j] => i = j
    /\ \A i \in 1..Len(answers) :
           answers[i] \notin ReadToEnd => (candidate > i \/ pcS = "returned")
    /\ (pcS = "returned" /\ \A i \in 1..Len(answers) : answers[i] \notin ReadToEnd) =>
           found_urls = <<>>

\* ---------------------------------------------------------------- C29
\* C29: the k-th wait is 2^k seconds and follows the k-th attempt, which
\* failed with a timeout or a request error; there is one wait between any
\* two consecutive attempts and none after the last attempt.
C29_BackoffPowersOfTwo ==
    /\ \A k \in 1..Len(waits) :
           /\ waits[k] = 2^k
           /\ outcomes[k] \in {"timeout", "request_error"}
    /\ pcF = "loop" => Len(waits) = Len(outcomes)
    /\ (pcF = "returned" /\ outcomes # <<>>) => Len(waits) = Len(outcomes) - 1
    /\ Len(waits) <= Max(max_retries - 1, 0)

\* five attempts failed, with waits of 2, 4, 8 and 16 seconds between them
C29_Witness ==
    /\ pcF = "returned"
    /\ Len(outcomes) = 5
    /\ waits = <<2, 4, 8, 16>>

\* ---------------------------------------------------------------- C30
\* C30: an attempt that ends with an error other than a timeout or a request
\* error is the last attempt: the call returns a failure result whose
\* attempts is the number of that attempt, and no wait follows it.
C30_ErrorEndsFetchAtOnce ==
    \A k \in 1..Len(outcomes) :
        outcomes[k] = "error" =>
            /\ k = Len(outcomes)
            /\ pcF = "returned"
            /\ result = [kind |-> "result", extraction_successful |-> FALSE,
                         error |-> "error", attempts |-> k]
            /\ Len(waits) = k - 1

\* the third attempt ended with such an error while more attempts were allowed
C30_Witness ==
    /\ pcF = "returned"
    /\ Len(outcomes) = 3
    /\ outcomes[3] = "error"
    /\ max_retries > 3

\* ------------------------------------------------------------------ C31
\* Queue(), app.py line 170: the maxsize argument is left at its default;
\* queue.Queue makes put wait only when maxsize > 0 and the queue holds
\* maxsize items
maxsize == 0
QueueFull(queue) == maxsize > 0 /\ Len(queue) >= maxsize

\* C31: the hand-off queue is bounded: it has a fixed capacity, the number of
\* items waiting in it never exceeds that capacity, and the producer puts an
\* item only while the queue is below its capacity (otherwise it waits).
C31_QueueBounded ==
    [][/\ maxsize > 0
       /\ Len(file_queue) <= maxsize
       /\ Len(file_queue') > Len(file_queue) => ~QueueFull(file_queue)]_vars

\* ------------------------------------------------------------------ C32
\* no other job was given the id of job t
OwnId(t) == \A s \in 1..Len(threads) : s # t => threads[s].job_id # threads[t].job_id

\* C32: a job's cancellation flag is in the registry exactly while the job
\* runs, from the first lines of the job to its finally clause.  Once the job
\* has finished no flag for it remains, whatever the order in which the steps
\* of a cancel request and the end of the job come.  (Stated for the jobs that
\* share their id with no other job.)
C32_FlagLivesWithJob ==
    \A t \in 1..Len(threads) :
        OwnId(t) =>
            ((threads[t].job_id \in DOMAIN job_cancellation) <=> (threads[t].pc = "running"))

\* ------------------------------------------------------------------ C33
\* C33: in batch mode every base URL is crawled by its own crawler (a step of
\* one crawl changes the discovered set of that crawl only), at most
\* max_workers crawls run at the same time, the batch is not aborted by a
\* failure, and when crawl_from_csv is over the result list holds exactly one
\* entry per base URL, a failed crawl giving a failure entry.
C33_BatchIsolatedBoundedComplete ==
    [][/\ Cardinality(Running(futures')) <= max_workers
       /\ \A i \in 1..Len(crawlers) :
            (Len(crawlers') = Len(crawlers) /\ crawlers'[i] # crawlers[i]) =>
                \A j \in 1..Len(crawlers) : j # i => crawlers'[j] = crawlers[j]
       /\ pcB' # "raised"
       /\ pcB' = "returned" =>
            /\ Len(results') = Len(base_urls)
            /\ \A i \in 1..Len(base_urls) :
                 Cardinality({r \in 1..Len(results') :
                                 /\ results'[r].job = i
                                 /\ results'[r].url = base_urls[i]}) = 1]_vars

\* ------------------------------------------------------------------ C34
\* C34: in a producer run that is not cancelled every useful URL is handled
\* exactly once and ends in exactly one place, the queue (fetch succeeded) or
\* the failure list (fetch failed): a URL already handled is in exactly one of
\* the two, exactly once, and a producer that has stopped has handled them all.
C34_EachUrlQueuedOrFailed ==
    LET places(i) ==
            Cardinality({k \in 1..Len(enqueued) : enqueued[k] = i}) +
            Cardinality({k \in 1..Len(failed_urls) : failed_urls[k] = i})
    IN  /\ \A i \in 1..num_useful :
             /\ places(i) <= 1
             /\ (pcP \in {"loop", "fetch"} /\ i < idx) => places(i) = 1
        /\ producer_exit \notin {"none", "cancelled"} =>
             /\ fetch_started = num_useful
             /\ \A i \in 1..num_useful : places(i) = 1

\* ------------------------------------------------------------------ C35
\* the row came with a label: its cell, stripped, is not empty (line 69)
HadLabel(cell) == cell # NoneCell /\ strip(cell) # ""

\* the reply of the API call made for row i
ReplyFor(i) == replies[CHOOSE k \in 1..Len(replies) : replies[k][1] = i][2]

\* C35: a labeling run is not ended by an error on a row, and when it
\* finishes without interruption the rows that had a label are unchanged and
\* every row that had none has the label 'True' or 'False': 'True' when the
\* call failed or returned anything but the two labels, else the label the
\* call returned.
C35_EveryRowLabelled ==
    /\ pcW # "raised"
    /\ pcW = "returned" =>
         /\ Len(output_csv) = Len(input_rows)
         /\ \A i \in 1..Len(input_rows) :
              IF HadLabel(input_rows[i])
              THEN output_csv[i] = input_rows[i]
              ELSE /\ output_csv[i] \in {"True", "False"}
                   /\ \E k \in 1..Len(replies) : replies[k][1] = i
                   /\ output_csv[i] =
                          IF ReplyFor(i) \in {"True", " True"} THEN "True"
                          ELSE IF ReplyFor(i) = "False" THEN "False"
                          ELSE "True"

\* ------------------------------------------------------------------ C36
\* C36: the consumer always terminates: once the producer has stopped, by
\* exhausting its URLs, on cancellation or because its loop body raised, the
\* consumer eventually reads the sentinel or observes cancellation and exits.
C36_ConsumerTerminates ==
    (pcP \in {"returned", "raised", "finished"}) ~> (pcC = "exited")

\* ------------------------------------------------------------------ C37
\* C37: for every max_retries, 0 included, and every sequence of outcomes,
\* extract_clean_content returns a result record with a boolean success flag;
\* when at least one attempt was made the attempt count of the record lies
\* between 1 and max_retries.
C37_AlwaysAResultRecord ==
    pcF = "returned" =>
        /\ result.kind = "result"
        /\ result.extraction_successful \in BOOLEAN
        /\ Len(outcomes) >= 1 => result.attempts \in 1..max_retries

\* ------------------------------------------------------------------ C38
\* C38: every URL in the discovered set, the seed, the URLs from the sitemap
\* and the URLs from page links alike, has the host of the base URL.
C38_DiscoveredOnBaseHost ==
    \A url \in DOMAIN discovered_urls : netloc(url) = domain

\* C40: a recorded depth is never beaten by a later rediscovery.  When a page
\* is crawled, every URL already in the discovered set that the page can list
\* again would get there a depth, page depth + 1, that is greater than or
\* equal to the depth recorded at its first discovery; and the recorded
\* depth stays as it was.
C40_RediscoveryNeverShallower ==
    [][crawl_log' # crawl_log =>
           LET current_depth == crawl_log'[Len(crawl_log')][2]
           IN  \A url \in DOMAIN discovered_urls \cap Linkable :
                   /\ current_depth + 1 >= url_depths[url]
                   /\ url_depths'[url] = url_depths[url]]_vars

\* a page below the home page was crawled and carried a link to a page
\* crawled before, whose recorded depth is smaller than the depth the link
\* would give it; a sitemap URL is among the discovered ones
C40_Witness ==
    /\ relinked
    /\ Len(crawl_log) >= 2
    /\ LET last == crawl_log[Len(crawl_log)]
       IN  /\ last[2] >= 1
           /\ \E url \in crawled \ {last[1]} : url_depths[url] < last[2] + 1
    /\ \E i \in 1..Len(sitemap_urls) : sitemap_urls[i] \in Linkable

\* C39: distinct jobs never share a job id.  Any two jobs started through
\* start-single or start-batch have different ids, and so a job that is
\* running has its own cancellation flag: the end of another job has not
\* removed it.
C39_JobIdsDistinct ==
    /\ \A s, t \in 1..Len(threads) : s # t => threads[s].job_id # threads[t].job_id
    /\ \A t \in 1..Len(threads) :
           threads[t].pc = "running" => threads[t].job_id \in DOMAIN job_cancellation

====
